---------------------------- MODULE Spec2Model ----------------------------
(***************************************************************************)
(* A model of the rule-based taxonomy pipeline of generate_taxonomy_direct *)
(* (the Classifier, the Bloom's-level classifier, the Extractor, the       *)
(* Consolidator and the Taxonomy Builder).                                  *)
(*                                                                         *)
(* Python strings are TLA+ strings; a dict is a function whose domain is   *)
(* the set of its keys, so that dict.get(key, default) can see a missing   *)
(* key; a list is a sequence; an insertion-ordered dict is the sequence of *)
(* its keys in first-insertion order.                                       *)
(***************************************************************************)
EXTENDS Integers, Sequences, FiniteSets, TLC

VARIABLES
    pc,             \* the call that has completed: "input" before any call
    outcome,        \* extract_skills_from_outcome / determine_blooms_level: the text
    level,          \* extract_skills_from_outcome: the module's level
    module_code,    \* extract_skills_from_outcome: the module's code
    skills,         \* the list returned by extract_skills_from_outcome
    blooms_level,   \* the label returned by determine_blooms_level
    in_context,     \* extract_main_skill: the context label of the calling rule
    main_skill,     \* the name returned by extract_main_skill
    in_skills,      \* consolidate_similar_skills: its argument
    consolidated,   \* the list returned by consolidate_similar_skills
    modules,        \* analyze_learning_outcomes_direct: its argument
    analysis,       \* the dict returned by analyze_learning_outcomes_direct
    taxonomy,       \* the dict returned by build_taxonomy_structure
    document,       \* main: the result dict handed to json.dump
    stored,         \* the JSON text json.dump wrote, as a JSON value
    loaded,         \* what json.load makes of the stored text
    scraper,        \* scrape_all_comp_modules: its arguments, the pages and its locals
    run             \* main.py: the arguments, the environment and the steps run

classifierVars ==
    <<outcome, level, module_code, skills, blooms_level, in_context, main_skill>>
consolidatorVars == <<in_skills, consolidated>>
pipelineVars == <<modules, analysis, taxonomy>>
storeVars == <<document, stored, loaded>>

vars == <<pc, classifierVars, consolidatorVars, pipelineVars, storeVars,
          scraper, run>>

-----------------------------------------------------------------------------
(* Bounds of the model.                                                    *)

\* An outcome is the concatenation of at most MaxFrags fragments.
MaxFrags == 2

\* The list handed to consolidate_similar_skills holds at most MaxSkills records.
MaxSkills == 3

\* The list handed to analyze_learning_outcomes_direct holds at most
\* MaxModules modules.
MaxModules == 3

\* scrape_all_comp_modules tries at most MaxCandidates module codes.
MaxCandidates == 3

\* --max-modules is at most MaxLimit.
MaxLimit == 2

-----------------------------------------------------------------------------
(* Python's built-in string operations, as the code uses them.             *)

Min(a, b) == IF a <= b THEN a ELSE b

UpperCase == "ABCDEFGHIJKLMNOPQRSTUVWXYZ"
LowerCase == "abcdefghijklmnopqrstuvwxyz"

\* s[i] as a one-character string (1-based).
CharAt(s, i) == SubSeq(s, i, i)

\* The 1-based place of the first occurrence of character c in s, 0 when c
\* does not occur.
IndexOf(c, s) ==
    LET at == {i \in 1..Len(s) : CharAt(s, i) = c}
    IN  IF at = {} THEN 0 ELSE CHOOSE i \in at : \A j \in at : i <= j

UpperCaseLetters == {CharAt(UpperCase, i) : i \in 1..Len(UpperCase)}

\* str.lower() on one character: an upper-case letter maps to its lower-case
\* letter, every other character to itself.
LowerChar(c) ==
    IF c \in UpperCaseLetters
    THEN CharAt(LowerCase, CHOOSE i \in 1..Len(UpperCase) : CharAt(UpperCase, i) = c)
    ELSE c

\* str.lower(): every character lower-cased, the order kept (the string is
\* halved so that the recursion stays shallow).
RECURSIVE Lower(_)
Lower(s) ==
    IF Len(s) = 0 THEN ""
    ELSE IF Len(s) = 1 THEN LowerChar(s)
    ELSE LET half == Len(s) \div 2
         IN  Lower(SubSeq(s, 1, half)) \o Lower(SubSeq(s, half + 1, Len(s)))

\* `word in text`: word occurs in text as a contiguous substring.
Contains(text, word) ==
    \E i \in 1..(Len(text) - Len(word) + 1) :
        SubSeq(text, i, i + Len(word) - 1) = word

\* any(word in text for word in words)
AnyIn(words, text) == \E i \in 1..Len(words) : Contains(text, words[i])

\* s[:n]
Prefix(s, n) == SubSeq(s, 1, Min(n, Len(s)))

\* The characters str.strip() removes (those the inputs of the model hold).
Whitespace == {" ", "\t", "\n"}

\* str.strip(): leading and trailing whitespace removed.
Strip(s) ==
    LET keep == {i \in 1..Len(s) : CharAt(s, i) \notin Whitespace}
    IN  IF keep = {} THEN ""
        ELSE LET first == CHOOSE i \in keep : \A j \in keep : i <= j
                 last  == CHOOSE i \in keep : \A j \in keep : j <= i
             IN  SubSeq(s, first, last)

\* s.split(sep)[0] for a one-character sep: the text before the first sep,
\* all of s when sep does not occur.
SplitFirst(s, sep) ==
    LET i == IndexOf(sep, s)
    IN  IF i = 0 THEN s ELSE SubSeq(s, 1, i - 1)

\* dict.get(key, default)
Get(d, key, default) == IF key \in DOMAIN d THEN d[key] ELSE default

Digits == "0123456789"

\* ord(c), for the characters that skill names, module codes and Bloom labels
\* are written with.
Ord(c) ==
    CASE IndexOf(c, Digits) > 0    -> 47 + IndexOf(c, Digits)
      [] IndexOf(c, UpperCase) > 0 -> 64 + IndexOf(c, UpperCase)
      [] IndexOf(c, LowerCase) > 0 -> 96 + IndexOf(c, LowerCase)
      [] c = " " -> 32
      [] c = "&" -> 38
      [] c = "," -> 44
      [] c = "-" -> 45
      [] c = "." -> 46
      [] c = ";" -> 59
      [] c = "_" -> 95

\* a < b for strings: the order of the code points at the first place where
\* they differ, a proper prefix before the longer string.
StrLess(a, b) ==
    \E k \in 1..Len(b) :
        /\ k <= Len(a) + 1
        /\ SubSeq(a, 1, k - 1) = SubSeq(b, 1, k - 1)
        /\ \/ k = Len(a) + 1
           \/ Ord(CharAt(a, k)) < Ord(CharAt(b, k))

\* sorted(list(S)) for a set S of strings
RECURSIVE Sorted(_)
Sorted(S) ==
    IF S = {} THEN << >>
    ELSE LET least == CHOOSE x \in S : \A y \in S \ {x} : StrLess(x, y)
         IN  <<least>> \o Sorted(S \ {least})

\* set(list)
SetOf(list) == {list[i] : i \in 1..Len(list)}

-----------------------------------------------------------------------------
(* determine_blooms_level                                                   *)

RememberVerbs   == <<"define", "list", "name", "identify", "recall", "recognize">>
UnderstandVerbs == <<"understand", "comprehend", "explain", "describe",
                     "summarize", "interpret", "classify">>
\* A variant of the Apply list without "write".
M_ApplyVerbsWithoutWrite ==
    <<"apply", "use", "solve", "implement", "execute", "carry out", "run">>
ApplyVerbs      == <<"apply", "use", "solve", "implement", "execute",
                     "carry out", "write", "run">>
AnalyzeVerbs    == <<"analyze", "examine", "compare", "contrast",
                     "differentiate", "organize", "test", "debug">>
EvaluateVerbs   == <<"evaluate", "assess", "judge", "critique", "justify",
                     "argue", "defend">>
CreateVerbs     == <<"create", "design", "develop", "construct", "build",
                     "formulate", "generate", "plan">>

\* A variant that tests the Create list before the Analyze list.
M_determine_blooms_level_create_before_analyze(text) ==
    IF AnyIn(RememberVerbs, text) THEN "Remember"
    ELSE IF AnyIn(UnderstandVerbs, text) THEN "Understand"
    ELSE IF AnyIn(ApplyVerbs, text) THEN "Apply"
    ELSE IF AnyIn(CreateVerbs, text) THEN "Create"
    ELSE IF AnyIn(AnalyzeVerbs, text) THEN "Analyze"
    ELSE IF AnyIn(EvaluateVerbs, text) THEN "Evaluate"
    ELSE "Apply"

\* A variant that tests the lists from the highest level down.
M_determine_blooms_level_highest_first(text) ==
    IF AnyIn(CreateVerbs, text) THEN "Create"
    ELSE IF AnyIn(EvaluateVerbs, text) THEN "Evaluate"
    ELSE IF AnyIn(AnalyzeVerbs, text) THEN "Analyze"
    ELSE IF AnyIn(ApplyVerbs, text) THEN "Apply"
    ELSE IF AnyIn(UnderstandVerbs, text) THEN "Understand"
    ELSE IF AnyIn(RememberVerbs, text) THEN "Remember"
    ELSE "Apply"

determine_blooms_level(text) ==
    IF AnyIn(RememberVerbs, text) THEN "Remember"
    ELSE IF AnyIn(UnderstandVerbs, text) THEN "Understand"
    ELSE IF AnyIn(ApplyVerbs, text) THEN "Apply"
    ELSE IF AnyIn(AnalyzeVerbs, text) THEN "Analyze"
    ELSE IF AnyIn(EvaluateVerbs, text) THEN "Evaluate"
    ELSE IF AnyIn(CreateVerbs, text) THEN "Create"
    ELSE "Apply"

-----------------------------------------------------------------------------
(* extract_main_skill, extract_keywords                                     *)

\* A variant that takes a first clause of up to 80 characters.
M_extract_main_skill_clause_up_to_80(outcome_text, context) ==
    LET stripped   == Strip(outcome_text)
        first_part == SplitFirst(SplitFirst(stripped, ","), ";")
    IN  IF Len(stripped) < 60 THEN stripped
        ELSE IF Len(first_part) <= 80 THEN first_part
        ELSE context \o " - " \o Prefix(stripped, 40) \o "..."

\* A variant that cuts the first clause at the first comma only.
M_extract_main_skill_comma_only(outcome_text, context) ==
    LET stripped   == Strip(outcome_text)
        first_part == SplitFirst(stripped, ",")
    IN  IF Len(stripped) < 60 THEN stripped
        ELSE IF Len(first_part) < 80 THEN first_part
        ELSE context \o " - " \o Prefix(stripped, 40) \o "..."

extract_main_skill(outcome_text, context) ==
    LET stripped   == Strip(outcome_text)
        first_part == SplitFirst(SplitFirst(stripped, ","), ";")
    IN  IF Len(stripped) < 60 THEN stripped
        ELSE IF Len(first_part) < 80 THEN first_part
        ELSE context \o " - " \o Prefix(stripped, 40) \o "..."

\* A variant that returns every candidate, found in the text or not.
M_extract_keywords_all_candidates(text, candidates) == candidates

extract_keywords(text, candidates) ==
    SelectSeq(candidates, LAMBDA keyword : Contains(text, keyword))

-----------------------------------------------------------------------------
(* extract_skills_from_outcome                                              *)

\* The cue lists of the eight `if any(...)` tests, in the order of the code.
ProgrammingCues  == <<"program", "code", "compile", "debug", "algorithm",
                      "data structure", "function", "method", "procedure">>
DesignCues       == <<"design", "develop", "create", "build", "construct">>
ComprehensionCues == <<"understand", "comprehend", "aware", "familiar",
                       "describe", "explain">>
TestingCues      == <<"test", "debug", "evaluate", "analyze", "assess">>
\* A variant of the fifth cue list without "architecture".
M_ArchitectureCuesWithoutArchitecture == <<"organization", "system", "structure">>
ArchitectureCues == <<"architecture", "organization", "system", "structure">>
TheoryCues       == <<"logic", "proof", "mathematical", "formal", "automata">>
ProblemCues      == <<"problem", "solve", "solution">>
DataCues         == <<"data", "information", "database">>

\* A variant that looks for the cues in the outcome as written, not lower-cased.
M_RuleBlockCaseSensitive(cues, context, category, skill_type, candidates, outcome_text, outcome_lower, blooms, code) ==
    IF AnyIn(cues, outcome_text)
    THEN << [skill_name   |-> extract_main_skill(outcome_text, context),
             description  |-> Prefix(outcome_text, 100),
             category     |-> category,
             skill_type   |-> skill_type,
             blooms_level |-> blooms,
             keywords     |-> extract_keywords(outcome_lower, candidates),
             module       |-> code] >>
    ELSE << >>

\* A variant in which each rule derives the level from its own skill name.
M_RuleBlockOwnLevel(cues, context, category, skill_type, candidates, outcome_text, outcome_lower, blooms, code) ==
    IF AnyIn(cues, outcome_lower)
    THEN << [skill_name   |-> extract_main_skill(outcome_text, context),
             description  |-> Prefix(outcome_text, 100),
             category     |-> category,
             skill_type   |-> skill_type,
             blooms_level |-> determine_blooms_level(
                                 Lower(extract_main_skill(outcome_text, context))),
             keywords     |-> extract_keywords(outcome_lower, candidates),
             module       |-> code] >>
    ELSE << >>

\* One `if any(...): skills.append({...})` block: the record it appends, as a
\* list of one record, or the empty list when no cue occurs.
RuleBlock(cues, context, category, skill_type, candidates, outcome_text, outcome_lower, blooms, code) ==
    IF AnyIn(cues, outcome_lower)
    THEN << [skill_name   |-> extract_main_skill(outcome_text, context),
             description  |-> Prefix(outcome_text, 100),
             category     |-> category,
             skill_type   |-> skill_type,
             blooms_level |-> blooms,
             keywords     |-> extract_keywords(outcome_lower, candidates),
             module       |-> code] >>
    ELSE << >>

\* A variant that names the General record after the trimmed outcome.
M_GeneralRecordTrimmed(outcome_text, blooms, code) ==
    [skill_name   |-> Prefix(Strip(outcome_text), 50),
     description  |-> Prefix(outcome_text, 100),
     category     |-> "General",
     skill_type   |-> "General Competency",
     blooms_level |-> blooms,
     keywords     |-> << >>,
     module       |-> code]

\* The `if not skills` block: the General record.
GeneralRecord(outcome_text, blooms, code) ==
    [skill_name   |-> Prefix(outcome_text, 50),
     description  |-> Prefix(outcome_text, 100),
     category     |-> "General",
     skill_type   |-> "General Competency",
     blooms_level |-> blooms,
     keywords     |-> << >>,
     module       |-> code]

\* The eight rule blocks in the order of the code: `skills` as it stands when
\* the `if not skills` test is reached.
RuleSkills(outcome_text, lvl, code) ==
    LET outcome_lower == Lower(outcome_text)
        blooms == determine_blooms_level(outcome_lower)
        Block(cues, context, category, skill_type, candidates) ==
            RuleBlock(cues, context, category, skill_type, candidates,
                      outcome_text, outcome_lower, blooms, code)
    IN  Block(ProgrammingCues, "Programming", "Technical", "Programming",
              <<"program", "code", "function", "algorithm">>)
     \o Block(DesignCues, "Design & Development", "Technical",
              "Software Design", <<"design", "develop", "architecture">>)
     \o Block(ComprehensionCues, "Conceptual Understanding", "Cognitive",
              "Comprehension", <<"understand", "knowledge", "theory">>)
     \o Block(TestingCues, "Analysis & Testing", "Technical",
              "Testing & Debugging", <<"test", "debug", "analyze">>)
     \o Block(ArchitectureCues, "Systems & Architecture", "Domain-Specific",
              "Computer Architecture", <<"architecture", "system", "hardware">>)
     \o Block(TheoryCues, "Theoretical Foundations", "Domain-Specific",
              "Theory & Mathematics", <<"logic", "proof", "mathematical">>)
     \o Block(ProblemCues, "Problem Solving", "Cognitive",
              "Problem-Solving", <<"problem", "solve", "solution">>)
     \o Block(DataCues, "Data Management", "Technical",
              "Data Science", <<"data", "information", "analysis">>)

\* A variant that returns the rule records as they are, with no General record.
M_extract_skills_without_fallback(outcome_text, lvl, code) ==
    RuleSkills(outcome_text, lvl, code)

extract_skills_from_outcome(outcome_text, lvl, code) ==
    LET found == RuleSkills(outcome_text, lvl, code)
    IN  IF found = << >>
        THEN << GeneralRecord(outcome_text,
                    determine_blooms_level(Lower(outcome_text)), code) >>
        ELSE found

-----------------------------------------------------------------------------
(* determine_proficiency_levels, consolidate_similar_skills                 *)

\* A variant that ranks a label outside the six levels below all of them.
M_BloomRankUnrecognisedLowest(b) ==
    CASE b = "Remember"   -> 1
      [] b = "Understand" -> 2
      [] b = "Apply"      -> 3
      [] b = "Analyze"    -> 4
      [] b = "Evaluate"   -> 5
      [] b = "Create"     -> 6
      [] OTHER            -> 0

\* blooms_hierarchy.get(b, 3)
BloomRank(b) ==
    CASE b = "Remember"   -> 1
      [] b = "Understand" -> 2
      [] b = "Apply"      -> 3
      [] b = "Analyze"    -> 4
      [] b = "Evaluate"   -> 5
      [] b = "Create"     -> 6
      [] OTHER            -> 3

\* max(...) of a non-empty set of integers
MaxOf(S) == CHOOSE x \in S : \A y \in S : y <= x

\* What a call that raises returns in the model: max() of an empty sequence
\* raises ValueError.
ValueError == "ValueError"

\* A variant that takes the lowest level observed, not the highest.
M_determine_proficiency_levels_min(blooms_levels) ==
    IF blooms_levels = {} THEN ValueError
    ELSE LET ranks == {BloomRank(b) : b \in blooms_levels}
             max_level == CHOOSE x \in ranks : \A y \in ranks : x <= y
         IN  IF max_level <= 2 THEN <<"Beginner">>
             ELSE IF max_level <= 4 THEN <<"Beginner", "Intermediate">>
             ELSE <<"Beginner", "Intermediate", "Advanced">>

determine_proficiency_levels(blooms_levels) ==
    IF blooms_levels = {} THEN ValueError
    ELSE LET max_level == MaxOf({BloomRank(b) : b \in blooms_levels})
         IN  IF max_level <= 2 THEN <<"Beginner">>
             ELSE IF max_level <= 4 THEN <<"Beginner", "Intermediate">>
             ELSE <<"Beginner", "Intermediate", "Advanced">>

\* An insertion-ordered dict is the sequence of its entries in the order the
\* keys were first inserted, each entry a record with its key in `key`.
\* The place of `key` in the dict, 0 when it is not a key.
KeyIndex(dict, key) ==
    IF \E i \in 1..Len(dict) : dict[i].key = key
    THEN CHOOSE i \in 1..Len(dict) : dict[i].key = key
    ELSE 0

\* One pass of the first loop: skill_map[name] is created on first use with
\* an empty set and two empty lists, then updated.
SkillMapAdd(skill_map, skill) ==
    LET name   == Get(skill, "skill_name", "Unknown")
        module == Get(skill, "module", "Unknown")
        blooms == Get(skill, "blooms_level", "Unknown")
        desc   == Get(skill, "description", "")
        i      == KeyIndex(skill_map, name)
    IN  IF i = 0
        THEN Append(skill_map, [key          |-> name,
                                modules      |-> {module},
                                blooms       |-> <<blooms>>,
                                descriptions |-> <<desc>>])
        ELSE [skill_map EXCEPT ![i].modules      = @ \cup {module},
                               ![i].blooms       = Append(@, blooms),
                               ![i].descriptions = Append(@, desc)]

\* skill_map after the first loop over skills[1..n].
RECURSIVE SkillMapAfter(_, _)
SkillMapAfter(skill_list, n) ==
    IF n = 0 THEN << >>
    ELSE SkillMapAdd(SkillMapAfter(skill_list, n - 1), skill_list[n])

\* A variant that lists the Bloom levels as they were collected.
M_ConsolidatedEntryLevelsAsCollected(data) ==
    LET blooms_set == SetOf(data.blooms)
    IN  [name               |-> data.key,
         proficiency_levels |-> determine_proficiency_levels(blooms_set),
         appears_in_modules |-> Sorted(data.modules),
         bloom_levels       |-> data.blooms]

\* One pass of the second loop: the consolidated skill of one entry.
ConsolidatedEntry(data) ==
    LET blooms_set == SetOf(data.blooms)
    IN  [name               |-> data.key,
         proficiency_levels |-> determine_proficiency_levels(blooms_set),
         appears_in_modules |-> Sorted(data.modules),
         bloom_levels       |-> Sorted(blooms_set)]

\* A variant that returns one consolidated skill per record, merging nothing.
M_consolidate_without_merging(skill_list) ==
    [i \in 1..Len(skill_list) |->
        ConsolidatedEntry(SkillMapAdd(<< >>, skill_list[i])[1])]

\* A variant that returns the consolidated skills in alphabetical order of name.
M_consolidate_sorted_by_name(skill_list) ==
    LET skill_map == SkillMapAfter(skill_list, Len(skill_list))
        names     == Sorted({skill_map[i].key : i \in 1..Len(skill_map)})
    IN  [i \in 1..Len(names) |->
            ConsolidatedEntry(skill_map[KeyIndex(skill_map, names[i])])]

consolidate_similar_skills(skill_list) ==
    LET skill_map == SkillMapAfter(skill_list, Len(skill_list))
    IN  [i \in 1..Len(skill_map) |-> ConsolidatedEntry(skill_map[i])]

-----------------------------------------------------------------------------
(* analyze_learning_outcomes_direct                                         *)

\* The inner loop: the records of outcomes[1..n], in outcome order.
RECURSIVE ModuleSkillsAfter(_, _, _, _)
ModuleSkillsAfter(outcomes, n, lvl, code) ==
    IF n = 0 THEN << >>
    ELSE ModuleSkillsAfter(outcomes, n - 1, lvl, code)
            \o extract_skills_from_outcome(outcomes[n], lvl, code)

\* module.copy() with module_copy['extracted_skills'] = module_skills
WithExtractedSkills(module, module_skills) ==
    [k \in DOMAIN module \cup {"extracted_skills"} |->
        IF k = "extracted_skills" THEN module_skills ELSE module[k]]

\* A variant in which a missing code is taken as the empty string.
M_ModuleFieldsCodeEmpty(module) ==
    [code     |-> Get(module, "code", ""),
     title    |-> Get(module, "title", "Unknown"),
     level    |-> Get(module, "level", 0),
     outcomes |-> Get(module, "learning_outcomes", << >>)]

\* The four module.get(...) calls that open a pass of the outer loop.
ModuleFields(module) ==
    [code     |-> Get(module, "code", "Unknown"),
     title    |-> Get(module, "title", "Unknown"),
     level    |-> Get(module, "level", 0),
     outcomes |-> Get(module, "learning_outcomes", << >>)]

\* A variant without the `if not outcomes: continue` test.
M_AnalyzeModuleKeepsEmpty(acc, module) ==
    LET code     == ModuleFields(module).code
        lvl      == ModuleFields(module).level
        outcomes == ModuleFields(module).outcomes
        module_skills == ModuleSkillsAfter(outcomes, Len(outcomes), lvl, code)
    IN  [all_extracted_skills |-> acc.all_extracted_skills \o module_skills,
         enriched_modules     |->
             Append(acc.enriched_modules,
                    WithExtractedSkills(module, module_skills))]

\* A variant that puts the records of each module in front of those
\* collected so far.
M_AnalyzeModuleNewestFirst(acc, module) ==
    LET code     == ModuleFields(module).code
        lvl      == ModuleFields(module).level
        outcomes == ModuleFields(module).outcomes
        module_skills == ModuleSkillsAfter(outcomes, Len(outcomes), lvl, code)
    IN  IF outcomes = << >> THEN acc
        ELSE [all_extracted_skills |-> module_skills \o acc.all_extracted_skills,
              enriched_modules     |->
                  Append(acc.enriched_modules,
                         WithExtractedSkills(module, module_skills))]

\* One pass of the outer loop; `acc` holds all_extracted_skills and
\* enriched_modules.
AnalyzeModule(acc, module) ==
    LET code     == ModuleFields(module).code
        lvl      == ModuleFields(module).level
        outcomes == ModuleFields(module).outcomes
        module_skills == ModuleSkillsAfter(outcomes, Len(outcomes), lvl, code)
    IN  IF outcomes = << >> THEN acc
        ELSE [all_extracted_skills |-> acc.all_extracted_skills \o module_skills,
              enriched_modules     |->
                  Append(acc.enriched_modules,
                         WithExtractedSkills(module, module_skills))]

\* The two lists after the outer loop over module_list[1..n].
RECURSIVE AnalyzeAfter(_, _)
AnalyzeAfter(module_list, n) ==
    IF n = 0
    THEN [all_extracted_skills |-> << >>, enriched_modules |-> << >>]
    ELSE AnalyzeModule(AnalyzeAfter(module_list, n - 1), module_list[n])

\* A variant that reports the number of input modules as total_modules.
M_analyze_counts_input_modules(module_list) ==
    LET done == AnalyzeAfter(module_list, Len(module_list))
    IN  [modules       |-> done.enriched_modules,
         all_skills    |-> done.all_extracted_skills,
         total_modules |-> Len(module_list),
         total_skills  |-> Len(done.all_extracted_skills)]

\* A variant that reports the number of enriched modules as total_skills.
M_analyze_counts_modules_as_skills(module_list) ==
    LET done == AnalyzeAfter(module_list, Len(module_list))
    IN  [modules       |-> done.enriched_modules,
         all_skills    |-> done.all_extracted_skills,
         total_modules |-> Len(done.enriched_modules),
         total_skills  |-> Len(done.enriched_modules)]

analyze_learning_outcomes_direct(module_list) ==
    LET done == AnalyzeAfter(module_list, Len(module_list))
    IN  [modules       |-> done.enriched_modules,
         all_skills    |-> done.all_extracted_skills,
         total_modules |-> Len(done.enriched_modules),
         total_skills  |-> Len(done.all_extracted_skills)]

-----------------------------------------------------------------------------
(* build_taxonomy_structure                                                 *)

\* A variant that files a record without category under "Unknown".
M_TreeAddMissingCategoryUnknown(tree, skill) ==
    LET category   == Get(skill, "category", "Unknown")
        skill_type == Get(skill, "skill_type", "General")
        i == KeyIndex(tree, category)
        types == IF i = 0 THEN << >> ELSE tree[i].types
        j == KeyIndex(types, skill_type)
        new_types ==
            IF j = 0
            THEN Append(types, [key |-> skill_type, skills |-> <<skill>>])
            ELSE [types EXCEPT ![j].skills = Append(@, skill)]
    IN  IF i = 0
        THEN Append(tree, [key |-> category, types |-> new_types])
        ELSE [tree EXCEPT ![i].types = new_types]

\* A variant that opens a new list for the skill type of every record.
M_TreeAddNewTypeEachTime(tree, skill) ==
    LET category   == Get(skill, "category", "General")
        skill_type == Get(skill, "skill_type", "General")
        i == KeyIndex(tree, category)
        types == IF i = 0 THEN << >> ELSE tree[i].types
        new_types == Append(types, [key |-> skill_type, skills |-> <<skill>>])
    IN  IF i = 0
        THEN Append(tree, [key |-> category, types |-> new_types])
        ELSE [tree EXCEPT ![i].types = new_types]

\* taxonomy_tree[category][skill_type].append(skill): both levels are
\* insertion-ordered dicts that create a missing key on first use.
TreeAdd(tree, skill) ==
    LET category   == Get(skill, "category", "General")
        skill_type == Get(skill, "skill_type", "General")
        i == KeyIndex(tree, category)
        types == IF i = 0 THEN << >> ELSE tree[i].types
        j == KeyIndex(types, skill_type)
        new_types ==
            IF j = 0
            THEN Append(types, [key |-> skill_type, skills |-> <<skill>>])
            ELSE [types EXCEPT ![j].skills = Append(@, skill)]
    IN  IF i = 0
        THEN Append(tree, [key |-> category, types |-> new_types])
        ELSE [tree EXCEPT ![i].types = new_types]

\* taxonomy_tree after the grouping loop over all_skills[1..n].
RECURSIVE TreeAfter(_, _)
TreeAfter(skill_list, n) ==
    IF n = 0 THEN << >>
    ELSE TreeAdd(TreeAfter(skill_list, n - 1), skill_list[n])

\* The entry of one skill type of one category.
SubCategory(category, entry) ==
    [name        |-> entry.key,
     description |-> entry.key \o " skills in " \o category \o " category",
     skills      |-> consolidate_similar_skills(entry.skills)]

\* The entry of one category.
Domain(entry) ==
    [name           |-> entry.key,
     description    |-> entry.key \o " competencies",
     sub_categories |-> [j \in 1..Len(entry.types) |->
                            SubCategory(entry.key, entry.types[j])]]

\* A variant that lists the domains in alphabetical order of name.
M_build_taxonomy_sorted_domains(skill_list) ==
    LET taxonomy_tree == TreeAfter(skill_list, Len(skill_list))
        names == Sorted({taxonomy_tree[i].key : i \in 1..Len(taxonomy_tree)})
    IN  [domains |-> [i \in 1..Len(names) |->
                        Domain(taxonomy_tree[KeyIndex(taxonomy_tree, names[i])])]]

build_taxonomy_structure(skill_list) ==
    LET taxonomy_tree == TreeAfter(skill_list, Len(skill_list))
    IN  [domains |-> [i \in 1..Len(taxonomy_tree) |-> Domain(taxonomy_tree[i])]]

-----------------------------------------------------------------------------
(* The persisted document: the result dict of main(), json.dump, json.load. *)

\* Python values with their types, as json.dump sees them.
PyStr(s)  == [py |-> "str", value |-> s]
PyInt(n)  == [py |-> "int", value |-> n]
PyList(items) == [py |-> "list", items |-> items]
PySet(members) == [py |-> "set", members |-> members]
\* A dict: its keys in insertion order and the value of each key.
PyDict(keys, values) == [py |-> "dict", keys |-> keys, values |-> values]

\* A list of strings.
PyStrList(list) == PyList([i \in 1..Len(list) |-> PyStr(list[i])])

\* A skill record as the Classifier's dict literals build it.
PySkillRecord(skill) ==
    PyDict(<<PyStr("skill_name"), PyStr("description"), PyStr("category"),
             PyStr("skill_type"), PyStr("blooms_level"), PyStr("keywords"),
             PyStr("module")>>,
           <<PyStr(skill.skill_name), PyStr(skill.description),
             PyStr(skill.category), PyStr(skill.skill_type),
             PyStr(skill.blooms_level), PyStrList(skill.keywords),
             PyStr(skill.module)>>)

\* The keys a module can have, in the order they are written.
ModuleKeys == <<"code", "title", "level", "learning_outcomes", "extracted_skills">>

\* An enriched module: the fields json.load gave the input module, and the
\* extracted_skills list set on its copy.
PyModule(module) ==
    LET keys == SelectSeq(ModuleKeys, LAMBDA k : k \in DOMAIN module)
        Value(k) ==
            CASE k = "level" -> PyInt(module[k])
              [] k = "learning_outcomes" -> PyStrList(module[k])
              [] k = "extracted_skills" ->
                    PyList([i \in 1..Len(module[k]) |-> PySkillRecord(module[k][i])])
              [] OTHER -> PyStr(module[k])
    IN  PyDict([i \in 1..Len(keys) |-> PyStr(keys[i])],
               [i \in 1..Len(keys) |-> Value(keys[i])])

\* A variant in which the two sets of a consolidated skill are emitted as
\* sets, without sorted(list(...)).
M_PyConsolidatedSkillWithSets(skill) ==
    PyDict(<<PyStr("name"), PyStr("proficiency_levels"),
             PyStr("appears_in_modules"), PyStr("bloom_levels")>>,
           <<PyStr(skill.name), PyStrList(skill.proficiency_levels),
             PySet({PyStr(m) : m \in SetOf(skill.appears_in_modules)}),
             PySet({PyStr(b) : b \in SetOf(skill.bloom_levels)})>>)

\* A consolidated skill: the dict literal of consolidate_similar_skills, the
\* two sets emitted as the lists sorted() returns.
PyConsolidatedSkill(skill) ==
    PyDict(<<PyStr("name"), PyStr("proficiency_levels"),
             PyStr("appears_in_modules"), PyStr("bloom_levels")>>,
           <<PyStr(skill.name), PyStrList(skill.proficiency_levels),
             PyStrList(skill.appears_in_modules), PyStrList(skill.bloom_levels)>>)

PySubCategory(sub) ==
    PyDict(<<PyStr("name"), PyStr("description"), PyStr("skills")>>,
           <<PyStr(sub.name), PyStr(sub.description),
             PyList([k \in 1..Len(sub.skills) |-> PyConsolidatedSkill(sub.skills[k])])>>)

PyDomain(domain) ==
    PyDict(<<PyStr("name"), PyStr("description"), PyStr("sub_categories")>>,
           <<PyStr(domain.name), PyStr(domain.description),
             PyList([j \in 1..Len(domain.sub_categories) |->
                        PySubCategory(domain.sub_categories[j])])>>)

PyTaxonomy(tax) ==
    PyDict(<<PyStr("domains")>>,
           <<PyList([i \in 1..Len(tax.domains) |-> PyDomain(tax.domains[i])])>>)

\* result = {'taxonomy': ..., 'modules': ..., 'total_skills': ...,
\*           'total_modules': ...}
PyResult(tax, an) ==
    PyDict(<<PyStr("taxonomy"), PyStr("modules"), PyStr("total_skills"),
             PyStr("total_modules")>>,
           <<PyTaxonomy(tax),
             PyList([i \in 1..Len(an.modules) |-> PyModule(an.modules[i])]),
             PyInt(an.total_skills), PyInt(an.total_modules)>>)

\* What json.dump returns in the model when it raises TypeError.
TypeError == [json |-> "TypeError"]

\* str(n) for n >= 0
RECURSIVE IntToStr(_)
IntToStr(n) ==
    IF n < 10 THEN CharAt(Digits, n + 1)
    ELSE IntToStr(n \div 10) \o CharAt(Digits, (n % 10) + 1)

\* json.dump accepts the value: a str, an int, a list of accepted values or a
\* dict with str or int keys and accepted values; a set is not accepted.
RECURSIVE Serializable(_)
Serializable(v) ==
    CASE v.py \in {"str", "int"} -> TRUE
      [] v.py = "list" -> \A i \in 1..Len(v.items) : Serializable(v.items[i])
      [] v.py = "dict" ->
            /\ \A i \in 1..Len(v.keys) : v.keys[i].py \in {"str", "int"}
            /\ \A i \in 1..Len(v.values) : Serializable(v.values[i])
      [] OTHER -> FALSE

\* The JSON value json.dump writes for an accepted value: an int key of a
\* dict becomes a string.
RECURSIVE JsonOf(_)
JsonOf(v) ==
    CASE v.py = "str" -> [json |-> "string", value |-> v.value]
      [] v.py = "int" -> [json |-> "number", value |-> v.value]
      [] v.py = "list" ->
            [json |-> "array", items |-> [i \in 1..Len(v.items) |-> JsonOf(v.items[i])]]
      [] v.py = "dict" ->
            [json    |-> "object",
             names   |-> [i \in 1..Len(v.keys) |->
                            IF v.keys[i].py = "int" THEN IntToStr(v.keys[i].value)
                            ELSE v.keys[i].value],
             members |-> [i \in 1..Len(v.values) |-> JsonOf(v.values[i])]]

json_dump(v) == IF Serializable(v) THEN JsonOf(v) ELSE TypeError

\* json.load: a string gives a str, a number an int, an array a list and an
\* object a dict with str keys.
RECURSIVE json_load(_)
json_load(j) ==
    CASE j.json = "string" -> PyStr(j.value)
      [] j.json = "number" -> PyInt(j.value)
      [] j.json = "array" ->
            PyList([i \in 1..Len(j.items) |-> json_load(j.items[i])])
      [] j.json = "object" ->
            PyDict([i \in 1..Len(j.names) |-> PyStr(j.names[i])],
                   [i \in 1..Len(j.members) |-> json_load(j.members[i])])

-----------------------------------------------------------------------------
(* The Classifier on one outcome: extract_skills_from_outcome and           *)
(* determine_blooms_level, each applied to an input drawn from Outcomes.    *)

\* The pieces outcomes are made of: sentences, single cue words and verbs in
\* either case, words that hold a cue inside them, text with no cue at all,
\* leading whitespace, commas and semicolons.
Fragments == <<
    "Understand the architecture of a modern CPU.",
    "Write and debug programs in a high-level language.",
    "define ",
    "design ",
    "USE DATA; ",
    "formal logic, ",
    "Evaluate solutions ",
    "  teamwork skills in varied settings ",
    "contest ",
    "compare ",
    "plan ",
    "Understand, design and debug formal data structure solutions" >>

RECURSIVE Concat(_)
Concat(fs) == IF fs = << >> THEN "" ELSE Head(fs) \o Concat(Tail(fs))

Outcomes ==
    UNION { { Concat([i \in 1..k |-> Fragments[f[i]]]) :
                f \in [1..k -> 1..Len(Fragments)] } : k \in 0..MaxFrags }

Levels == {0, 1}
Codes  == {"COMP101", "COMP201"}

NoValue == << >>

ClassifierIdle ==
    /\ outcome = "" /\ level = 0 /\ module_code = ""
    /\ skills = NoValue /\ blooms_level = ""
    /\ in_context = "" /\ main_skill = ""

ConsolidatorIdle == in_skills = NoValue /\ consolidated = NoValue

PipelineIdle ==
    /\ modules = NoValue /\ analysis = NoValue /\ taxonomy = NoValue
    /\ document = NoValue /\ stored = NoValue /\ loaded = NoValue

ScraperIdle == scraper = NoValue

MainIdle == run = NoValue

InitClassifier ==
    /\ pc = "input"
    /\ outcome \in Outcomes
    /\ level \in Levels
    /\ module_code \in Codes
    /\ skills = NoValue
    /\ blooms_level = ""
    /\ in_context = ""
    /\ main_skill = ""
    /\ ConsolidatorIdle
    /\ PipelineIdle
    /\ ScraperIdle
    /\ MainIdle

\* skills = extract_skills_from_outcome(outcome, level, code)
Classify ==
    /\ pc = "input"
    /\ skills' = extract_skills_from_outcome(outcome, level, module_code)
    /\ pc' = "classified"
    /\ UNCHANGED <<consolidatorVars, pipelineVars, outcome, level,
                   module_code, blooms_level, in_context,
                   main_skill, storeVars, scraper, run>>

\* blooms_level = determine_blooms_level(text), the text taken as it is
DetermineBlooms ==
    /\ pc = "input"
    /\ blooms_level' = determine_blooms_level(outcome)
    /\ pc' = "leveled"
    /\ UNCHANGED <<consolidatorVars, pipelineVars, outcome, level,
                   module_code, skills, in_context,
                   main_skill, storeVars, scraper, run>>

\* The context labels extract_main_skill is called with (two of the eight).
Contexts == {"Programming", "Conceptual Understanding"}

\* main_skill = extract_main_skill(outcome, context)
ExtractMainSkill ==
    /\ pc = "input"
    /\ \E c \in Contexts :
          /\ in_context' = c
          /\ main_skill' = extract_main_skill(outcome, c)
    /\ pc' = "named"
    /\ UNCHANGED <<consolidatorVars, pipelineVars, outcome, level,
                   module_code, skills, blooms_level,
                   storeVars, scraper, run>>

NextClassifier == Classify \/ DetermineBlooms \/ ExtractMainSkill

SpecClassifier == InitClassifier /\ [][NextClassifier]_vars

-----------------------------------------------------------------------------
(* Properties of the Classifier.                                           *)

\* The rules as documented: order, skill type and category; each with the cue
\* list the code tests for it.
DocumentedRules == <<
    [skill_type |-> "Programming",           category |-> "Technical",       cues |-> ProgrammingCues],
    [skill_type |-> "Software Design",       category |-> "Technical",       cues |-> DesignCues],
    [skill_type |-> "Comprehension",         category |-> "Cognitive",       cues |-> ComprehensionCues],
    [skill_type |-> "Testing & Debugging",   category |-> "Technical",       cues |-> TestingCues],
    [skill_type |-> "Computer Architecture", category |-> "Domain-Specific", cues |-> ArchitectureCues],
    [skill_type |-> "Theory & Mathematics",  category |-> "Domain-Specific", cues |-> TheoryCues],
    [skill_type |-> "Problem-Solving",       category |-> "Cognitive",       cues |-> ProblemCues],
    [skill_type |-> "Data Science",          category |-> "Technical",       cues |-> DataCues] >>

\* Some word of `words` occurs in `text`.
Occurs(words, text) == \E i \in 1..Len(words) : Contains(text, words[i])

\* The numbers of the rules that have a cue in the lower-cased outcome, ascending.
FiredRules(text) ==
    LET lowered == Lower(text)
    IN  SelectSeq([r \in 1..Len(DocumentedRules) |-> r],
                  LAMBDA r : Occurs(DocumentedRules[r].cues, lowered))

\* C1: every outcome, the empty string and the strings with no cue included,
\* yields at least one skill record.
C1_Totality == pc = "classified" => Len(skills) >= 1

C1_Witness ==
    /\ pc = "classified"
    /\ outcome = ""
    /\ Len(skills) = 1

\* C2: the rule records of an outcome are exactly one per rule that has a cue
\* in the lower-cased outcome, in rule order 1..8, each with the rule's skill
\* type and category.
C2_OneRecordPerFiredRule ==
    pc = "classified" =>
        LET fired == FiredRules(outcome)
            recs  == SelectSeq(skills, LAMBDA s : s.category # "General")
        IN  /\ Len(recs) = Len(fired)
            /\ \A i \in 1..Len(fired) :
                /\ recs[i].skill_type = DocumentedRules[fired[i]].skill_type
                /\ recs[i].category = DocumentedRules[fired[i]].category

\* All eight rules fire together on an outcome written with capitals.
C2_Witness ==
    /\ pc = "classified"
    /\ Len(FiredRules(outcome)) = 8
    /\ Len(skills) = 8
    /\ outcome # Lower(outcome)

\* C3: an outcome with no cue yields exactly the General record, named after
\* the first 50 characters of the outcome as written, with no keywords; and a
\* General record never comes with a rule record.
C3_GeneralFallback ==
    pc = "classified" =>
        LET fired == FiredRules(outcome)
        IN  /\ fired = << >> =>
                /\ Len(skills) = 1
                /\ skills[1].category = "General"
                /\ skills[1].skill_type = "General Competency"
                /\ skills[1].skill_name = Prefix(outcome, 50)
                /\ skills[1].keywords = << >>
            /\ (\E i \in 1..Len(skills) : skills[i].category = "General") =>
                /\ Len(skills) = 1
                /\ fired = << >>

\* A General record for an outcome longer than 50 characters that starts
\* with whitespace.
C3_Witness ==
    /\ pc = "classified"
    /\ Len(outcome) > 50
    /\ CharAt(outcome, 1) = " "
    /\ Len(skills) = 1
    /\ skills[1].category = "General"
    /\ Len(skills[1].skill_name) = 50

\* The six levels and their verb lists in the documented order.
DocumentedLevels == <<
    [level |-> "Remember",   verbs |-> RememberVerbs],
    [level |-> "Understand", verbs |-> UnderstandVerbs],
    [level |-> "Apply",      verbs |-> ApplyVerbs],
    [level |-> "Analyze",    verbs |-> AnalyzeVerbs],
    [level |-> "Evaluate",   verbs |-> EvaluateVerbs],
    [level |-> "Create",     verbs |-> CreateVerbs] >>

\* The level of the first list with a verb in `text`, Apply when there is none.
FirstMatchingLevel(text) ==
    LET hits == {k \in 1..Len(DocumentedLevels) :
                    Occurs(DocumentedLevels[k].verbs, text)}
    IN  IF hits = {} THEN "Apply"
        ELSE DocumentedLevels[CHOOSE k \in hits : \A j \in hits : k <= j].level

C5_OneLevelPerOutcome ==
    pc = "classified" =>
        LET expected == FirstMatchingLevel(Lower(outcome))
        IN  \A i \in 1..Len(skills) :
                /\ skills[i].blooms_level = expected
                /\ skills[i].blooms_level = skills[1].blooms_level
                /\ skills[i].module = module_code
                /\ skills[i].description = skills[1].description

\* Several records from one outcome whose skill names, taken alone, would be
\* of different levels.
C5_Witness ==
    /\ pc = "classified"
    /\ Len(skills) >= 3
    /\ \E i, j \in 1..Len(skills) :
          FirstMatchingLevel(Lower(skills[i].skill_name))
            # FirstMatchingLevel(Lower(skills[j].skill_name))

\* The places of the commas and semicolons of a text.
DelimiterPlaces(t) == {i \in 1..Len(t) : CharAt(t, i) \in {",", ";"}}

\* The text before the first comma or semicolon, whichever comes first; the
\* whole text when it has neither.
FirstClause(t) ==
    LET places == DelimiterPlaces(t)
    IN  IF places = {} THEN t
        ELSE SubSeq(t, 1, (CHOOSE i \in places : \A j \in places : i <= j) - 1)

\* The skill name as documented, for a trimmed outcome t and a context label.
DocumentedMainSkill(t, label) ==
    IF Len(t) < 60 THEN t
    ELSE IF Len(FirstClause(t)) < 80 THEN FirstClause(t)
    ELSE label \o " - " \o SubSeq(t, 1, 40) \o "..."

\* C15: for the trimmed outcome t, extract_main_skill returns t when t has
\* fewer than 60 characters; otherwise the text of t before its first comma
\* or semicolon when that has fewer than 80 characters; otherwise the context
\* label, " - ", the first 40 characters of t and "...". Splitting at the
\* first comma and then at the first semicolon cuts at the earlier of the two.
C15_MainSkillName ==
    pc = "named" =>
        LET t == Strip(outcome)
        IN  /\ main_skill = DocumentedMainSkill(t, in_context)
            /\ SplitFirst(SplitFirst(t, ","), ";") = FirstClause(t)

\* A trimmed outcome of 60 characters or more whose first semicolon comes
\* before its first comma, named by the text before the semicolon.
C15_Witness ==
    /\ pc = "named"
    /\ Len(Strip(outcome)) >= 60
    /\ IndexOf(";", outcome) > 0
    /\ IndexOf(";", outcome) < IndexOf(",", outcome)
    /\ main_skill = SubSeq(outcome, 1, IndexOf(";", outcome) - 1)

\* The candidate keywords of the eight rules as documented, in rule order.
DocumentedCandidates == <<
    <<"program", "code", "function", "algorithm">>,
    <<"design", "develop", "architecture">>,
    <<"understand", "knowledge", "theory">>,
    <<"test", "debug", "analyze">>,
    <<"architecture", "system", "hardware">>,
    <<"logic", "proof", "mathematical">>,
    <<"problem", "solve", "solution">>,
    <<"data", "information", "analysis">> >>

\* The number of the rule that produces records of a skill type.
RuleOfType(skill_type) ==
    CHOOSE r \in 1..Len(DocumentedRules) :
        DocumentedRules[r].skill_type = skill_type

\* C16: the keywords of a rule record are exactly the candidates of its rule
\* that occur in the lower-cased outcome, in candidate order, none twice,
\* and nothing else.
C16_KeywordsFromCandidates ==
    pc = "classified" =>
        LET lowered == Lower(outcome)
        IN  \A i \in 1..Len(skills) :
                skills[i].category # "General" =>
                    LET candidates == DocumentedCandidates[RuleOfType(skills[i].skill_type)]
                        found == {w \in SetOf(candidates) : Contains(lowered, w)}
                    IN  /\ SetOf(skills[i].keywords) = found
                        /\ skills[i].keywords
                              = SelectSeq(candidates, LAMBDA w : w \in found)

\* One outcome with a rule record that has keywords and a rule record, fired
\* by a cue that is no candidate, that has none.
C16_Witness ==
    /\ pc = "classified"
    /\ \E i, j \in 1..Len(skills) :
          /\ skills[i].category # "General"
          /\ skills[i].keywords = << >>
          /\ skills[j].keywords # << >>
          /\ Len(skills[j].keywords)
                < Len(DocumentedCandidates[RuleOfType(skills[j].skill_type)])

\* C17: "Understand the architecture of a modern CPU." yields exactly two
\* records, Comprehension (Cognitive) and then Computer Architecture
\* (Domain-Specific), both of level Understand.
C17_ScenarioArchitecture ==
    (pc = "classified" /\ outcome = "Understand the architecture of a modern CPU.") =>
        /\ Len(skills) = 2
        /\ skills[1].skill_type = "Comprehension"
        /\ skills[1].category = "Cognitive"
        /\ skills[1].blooms_level = "Understand"
        /\ skills[2].skill_type = "Computer Architecture"
        /\ skills[2].category = "Domain-Specific"
        /\ skills[2].blooms_level = "Understand"

C17_Witness ==
    /\ pc = "classified"
    /\ outcome = "Understand the architecture of a modern CPU."
    /\ Len(skills) = 2

\* C18: "Write and debug programs in a high-level language." yields a
\* Programming record of category Technical and level Apply; "write" is an
\* Apply verb that occurs in the text and no Remember or Understand verb does.
C18_ScenarioProgramming ==
    (pc = "classified" /\ outcome = "Write and debug programs in a high-level language.") =>
        LET lowered == Lower(outcome)
        IN  /\ \E i \in 1..Len(skills) :
                  /\ skills[i].skill_type = "Programming"
                  /\ skills[i].category = "Technical"
                  /\ skills[i].blooms_level = "Apply"
            /\ \A i \in 1..Len(skills) : skills[i].blooms_level = "Apply"
            /\ "write" \in SetOf(DocumentedLevels[3].verbs)
            /\ Contains(lowered, "write")
            /\ ~Occurs(DocumentedLevels[1].verbs, lowered)
            /\ ~Occurs(DocumentedLevels[2].verbs, lowered)

C18_Witness ==
    /\ pc = "classified"
    /\ outcome = "Write and debug programs in a high-level language."
    /\ skills[1].skill_type = "Programming"


\* C27: every cue of rule 4 is a verb of the Analyze or the Evaluate list;
\* no Testing & Debugging record has the level Create, and no text that
\* holds a cue of rule 4 is given the level Create.
C27_TestingNeverCreate ==
    /\ \A c \in 1..Len(TestingCues) :
          \/ \E v \in 1..Len(AnalyzeVerbs) : AnalyzeVerbs[v] = TestingCues[c]
          \/ \E v \in 1..Len(EvaluateVerbs) : EvaluateVerbs[v] = TestingCues[c]
    /\ pc = "classified" =>
          \A i \in 1..Len(skills) :
              skills[i].skill_type = "Testing & Debugging"
                 => skills[i].blooms_level
                       \in {"Remember", "Understand", "Apply", "Analyze", "Evaluate"}
    /\ pc = "leveled" =>
          (Occurs(TestingCues, outcome) => blooms_level # "Create")

\* An outcome with a verb of the Create list and a cue of rule 4 that is a
\* verb of the Evaluate list only: its Testing & Debugging record is at
\* Evaluate.
C27_Witness ==
    /\ pc = "classified"
    /\ Occurs(CreateVerbs, Lower(outcome))
    /\ ~Occurs(AnalyzeVerbs, Lower(outcome))
    /\ \E i \in 1..Len(skills) :
          /\ skills[i].skill_type = "Testing & Debugging"
          /\ skills[i].blooms_level = "Evaluate"

\* C28: every record has a skill_name of at most 79 characters and a
\* description of at most 100; a name taken verbatim has fewer than 60, a
\* first clause fewer than 80, a context fallback at most 70 (the longest
\* label has 24), and the name of the General record at most 50.
C28_NameAndDescriptionLengths ==
    LET t == Strip(outcome)
        fallback == Len(t) >= 60 /\ Len(FirstClause(t)) >= 80
    IN  /\ pc = "classified" =>
              \A i \in 1..Len(skills) :
                  /\ Len(skills[i].skill_name) <= 79
                  /\ Len(skills[i].description) <= 100
                  /\ fallback => Len(skills[i].skill_name) <= 70
                  /\ skills[i].skill_type = "General Competency"
                        => Len(skills[i].skill_name) <= 50
        /\ pc = "named" =>
              /\ Len(main_skill) <= 79
              /\ Len(in_context) <= 24
              /\ Len(t) < 60 => Len(main_skill) < 60
              /\ fallback => Len(main_skill) = Len(in_context) + 3 + 40 + 3

\* An outcome of more than 79 characters whose trimmed text has exactly 79
\* and no comma or semicolon: the records are named by all 79 of them.
C28_Witness ==
    /\ pc = "classified"
    /\ Len(outcome) > 79
    /\ \E i \in 1..Len(skills) : Len(skills[i].skill_name) = 79

-----------------------------------------------------------------------------
(* The Consolidator on one list: consolidate_similar_skills applied to a    *)
(* list of at most MaxSkills records drawn from SkillPool.                  *)

\* A skill record with every field.
Skill(name, module, blooms) ==
    [skill_name   |-> name,
     description  |-> name,
     category     |-> "Technical",
     skill_type   |-> "Programming",
     blooms_level |-> blooms,
     keywords     |-> << >>,
     module       |-> module]

\* The records the lists are made of: one name at each of the six levels, in
\* modules given in no particular order; a second name and the first name in
\* lower case, with a label that is none of the six; a record with only a
\* name and a record with no name.
SkillPool == <<
    Skill("Programming", "COMP201", "Remember"),
    Skill("Programming", "COMP101", "Understand"),
    Skill("Programming", "COMP201", "Apply"),
    Skill("Programming", "COMP101", "Analyze"),
    Skill("Programming", "COMP101", "Evaluate"),
    Skill("Programming", "COMP201", "Create"),
    Skill("Design", "COMP101", "Apply"),
    Skill("Design", "COMP201", "Remember"),
    Skill("Design", "COMP30", "Create"),
    Skill("programming", "COMP101", "understand"),
    [skill_name |-> "Programming"],
    [module |-> "COMP101", blooms_level |-> "Create"] >>

SkillLists == UNION { [1..k -> SetOf(SkillPool)] : k \in 0..MaxSkills }

InitConsolidator ==
    /\ pc = "input"
    /\ in_skills \in SkillLists
    /\ consolidated = NoValue
    /\ ClassifierIdle
    /\ PipelineIdle
    /\ ScraperIdle
    /\ MainIdle

\* A variant of the call that leaves its argument reversed.
M_ConsolidateReversingInput ==
    /\ pc = "input"
    /\ consolidated' = consolidate_similar_skills(in_skills)
    /\ in_skills' = [i \in 1..Len(in_skills) |-> in_skills[Len(in_skills) + 1 - i]]
    /\ pc' = "consolidated"
    /\ UNCHANGED <<classifierVars, pipelineVars, storeVars, scraper,
                   run>>

\* consolidated = consolidate_similar_skills(in_skills)
Consolidate ==
    /\ pc = "input"
    /\ consolidated' = consolidate_similar_skills(in_skills)
    /\ pc' = "consolidated"
    /\ UNCHANGED <<classifierVars, pipelineVars, in_skills,
                   storeVars, scraper, run>>

\* The same call on the same list once more.
ConsolidateAgain ==
    /\ pc = "consolidated"
    /\ consolidated' = consolidate_similar_skills(in_skills)
    /\ pc' = "reconsolidated"
    /\ UNCHANGED <<classifierVars, pipelineVars, in_skills,
                   storeVars, scraper, run>>

NextConsolidator == Consolidate \/ ConsolidateAgain

SpecConsolidator == InitConsolidator /\ [][NextConsolidator]_vars

-----------------------------------------------------------------------------
(* Properties of the Consolidator.                                          *)

\* The name, module and level a record counts with.
NameOf(s)   == IF "skill_name" \in DOMAIN s THEN s.skill_name ELSE "Unknown"
ModuleOf(s) == IF "module" \in DOMAIN s THEN s.module ELSE "Unknown"
LevelOf(s)  == IF "blooms_level" \in DOMAIN s THEN s.blooms_level ELSE "Unknown"

\* The places in `list` of the records named `name`.
GroupOf(list, name) == {i \in 1..Len(list) : NameOf(list[i]) = name}

\* The first place in `list` of a record named `name`.
FirstSeenAt(list, name) ==
    CHOOSE i \in GroupOf(list, name) : \A j \in GroupOf(list, name) : i <= j

\* The list has no two equal entries next to each other or apart and is in
\* ascending string order.
StrictlyAscending(list) ==
    \A k \in 1..(Len(list) - 1) : StrLess(list[k], list[k + 1])

\* C6: one consolidated skill per distinct skill name of the input, names
\* compared exactly; no two entries share a name; the entries are in the
\* order in which the names are first seen in the input.
C6_OnePerNameInFirstSeenOrder ==
    pc = "consolidated" =>
        /\ {consolidated[i].name : i \in 1..Len(consolidated)}
              = {NameOf(in_skills[i]) : i \in 1..Len(in_skills)}
        /\ \A i, j \in 1..Len(consolidated) :
              i # j => consolidated[i].name # consolidated[j].name
        /\ \A i, j \in 1..Len(consolidated) :
              i < j => FirstSeenAt(in_skills, consolidated[i].name)
                         < FirstSeenAt(in_skills, consolidated[j].name)

\* Two names, one of them seen twice, returned in first-seen order although
\* that is not the alphabetical order.
C6_Witness ==
    /\ pc = "consolidated"
    /\ Len(in_skills) = 3
    /\ Len(consolidated) = 2
    /\ StrLess(consolidated[2].name, consolidated[1].name)

\* The ranks of the six levels as documented; any other label counts as 3.
DocumentedRank(b) ==
    CASE b = "Remember" -> 1 [] b = "Understand" -> 2 [] b = "Apply" -> 3
      [] b = "Analyze" -> 4 [] b = "Evaluate" -> 5 [] b = "Create" -> 6
      [] OTHER -> 3

ProficiencyScale == <<"Beginner", "Intermediate", "Advanced">>

\* The highest documented rank among the records named `name`.
MaxRankOf(list, name) ==
    LET ranks == {DocumentedRank(LevelOf(list[i])) : i \in GroupOf(list, name)}
    IN  CHOOSE r \in ranks : \A q \in ranks : q <= r

\* C7: proficiency_levels follows from the highest Bloom rank of the group:
\* at most 2 gives [Beginner], 3 or 4 [Beginner, Intermediate], 5 or 6 all
\* three; it is always a non-empty prefix of the scale.
C7_ProficiencyFromMaxRank ==
    pc = "consolidated" =>
        \A i \in 1..Len(consolidated) :
            LET top   == MaxRankOf(in_skills, consolidated[i].name)
                conso == consolidated[i].proficiency_levels
            IN  /\ top <= 2 => conso = <<"Beginner">>
                /\ top \in {3, 4} => conso = <<"Beginner", "Intermediate">>
                /\ top >= 5 => conso = ProficiencyScale
                /\ Len(conso) \in 1..3
                /\ conso = SubSeq(ProficiencyScale, 1, Len(conso))

\* A skill seen with Apply in COMP201 and with Analyze in COMP101.
C7_Witness ==
    /\ pc = "consolidated"
    /\ \E i \in 1..Len(consolidated) :
        /\ consolidated[i].name = "Programming"
        /\ consolidated[i].bloom_levels = <<"Analyze", "Apply">>
        /\ consolidated[i].appears_in_modules = <<"COMP101", "COMP201">>
        /\ consolidated[i].proficiency_levels = <<"Beginner", "Intermediate">>

\* C8: appears_in_modules is the set of the group's module codes, ascending
\* and without duplicates; bloom_levels is the set of the group's levels,
\* sorted and without duplicates.
C8_ModulesAndLevelsSortedSets ==
    pc = "consolidated" =>
        \A i \in 1..Len(consolidated) :
            LET group == GroupOf(in_skills, consolidated[i].name)
                mods  == consolidated[i].appears_in_modules
                lvls  == consolidated[i].bloom_levels
            IN  /\ SetOf(mods) = {ModuleOf(in_skills[k]) : k \in group}
                /\ StrictlyAscending(mods)
                /\ SetOf(lvls) = {LevelOf(in_skills[k]) : k \in group}
                /\ StrictlyAscending(lvls)

\* A group of three records whose modules come in descending order with one
\* repeated, and whose levels are three different ones.
C8_Witness ==
    /\ pc = "consolidated"
    /\ Len(in_skills) = 3
    /\ Len(consolidated) = 1
    /\ ModuleOf(in_skills[1]) = "COMP201"
    /\ ModuleOf(in_skills[2]) = "COMP101"
    /\ ModuleOf(in_skills[3]) = "COMP201"
    /\ Len(consolidated[1].appears_in_modules) = 2
    /\ Len(consolidated[1].bloom_levels) = 3

KnownLevels ==
    {"Remember", "Understand", "Apply", "Analyze", "Evaluate", "Create"}

\* C29: determine_proficiency_levels is never called with an empty set:
\* every group holds at least one label, so every consolidated skill has a
\* level list and a proficiency list; a label outside the six levels, the
\* default "Unknown" included, counts as rank 3: a group with no known
\* label, or with such a label and none above Understand, gets
\* [Beginner, Intermediate].
C29_GroupsNeverEmpty ==
    pc = "consolidated" =>
        /\ \A g \in 1..Len(SkillMapAfter(in_skills, Len(in_skills))) :
              SkillMapAfter(in_skills, Len(in_skills))[g].blooms # << >>
        /\ \A i \in 1..Len(consolidated) :
              LET labels == {LevelOf(in_skills[k]) :
                                k \in GroupOf(in_skills, consolidated[i].name)}
              IN  /\ labels # {}
                  /\ Len(consolidated[i].bloom_levels) >= 1
                  /\ Len(consolidated[i].proficiency_levels) \in 1..3
                  /\ (/\ labels \ KnownLevels # {}
                      /\ labels \cap KnownLevels \subseteq {"Remember", "Understand"})
                        => consolidated[i].proficiency_levels
                              = <<"Beginner", "Intermediate">>

\* Two skills, one whose only label is in lower case and one with no label
\* at all, and a third record at Remember merged with the latter.
C29_Witness ==
    /\ pc = "consolidated"
    /\ Len(in_skills) = 3
    /\ Len(consolidated) = 2
    /\ \E i, j \in 1..2 :
          /\ consolidated[i].bloom_levels = <<"understand">>
          /\ consolidated[j].bloom_levels = <<"Remember", "Unknown">>
          /\ consolidated[i].proficiency_levels = <<"Beginner", "Intermediate">>
          /\ consolidated[j].proficiency_levels = <<"Beginner", "Intermediate">>

-----------------------------------------------------------------------------
(* The pipeline of main(): analyze_learning_outcomes_direct on a list of    *)
(* at most MaxModules modules drawn from ModulePool, then                    *)
(* build_taxonomy_structure on the all_skills it returned.                   *)

\* The modules the lists are made of: modules that share an outcome, modules
\* whose outcomes fall into several categories and skill types, a module with
\* an empty outcome list, a module with outcomes only (no code, title or
\* level), and a module with no outcome list.
ModulePool == <<
    [code |-> "COMP201", title |-> "Computer Architecture", level |-> 2,
     learning_outcomes |-> <<"Understand the architecture of a modern CPU.",
                             "USE DATA; ">>],
    [code |-> "COMP101", title |-> "Programming I", level |-> 1,
     learning_outcomes |-> <<"Write and debug programs in a high-level language.">>],
    [code |-> "COMP101", title |-> "Programming I", level |-> 1,
     learning_outcomes |-> <<"Understand the architecture of a modern CPU.">>],
    [code |-> "COMP301", title |-> "Project", level |-> 3,
     learning_outcomes |-> << >>],
    [learning_outcomes |-> <<"plan ", "design ">>],
    [code |-> "COMP102", title |-> "Seminar", level |-> 1] >>

ModuleLists ==
    UNION { { [i \in 1..k |-> ModulePool[f[i]]] :
                f \in [1..k -> 1..Len(ModulePool)] } : k \in 0..MaxModules }

InitPipeline ==
    /\ pc = "input"
    /\ modules \in ModuleLists
    /\ analysis = NoValue
    /\ taxonomy = NoValue
    /\ document = NoValue
    /\ stored = NoValue
    /\ loaded = NoValue
    /\ ClassifierIdle
    /\ ConsolidatorIdle
    /\ ScraperIdle
    /\ MainIdle

\* A variant of the call without module.copy(): extracted_skills is set on
\* the input record itself.
M_AnalyzeInPlace ==
    /\ pc = "input"
    /\ analysis' = analyze_learning_outcomes_direct(modules)
    /\ modules' = [i \in 1..Len(modules) |->
                     IF ModuleFields(modules[i]).outcomes = << >> THEN modules[i]
                     ELSE WithExtractedSkills(modules[i],
                              ModuleSkillsAfter(ModuleFields(modules[i]).outcomes,
                                                Len(ModuleFields(modules[i]).outcomes),
                                                ModuleFields(modules[i]).level,
                                                ModuleFields(modules[i]).code))]
    /\ pc' = "analyzed"
    /\ UNCHANGED <<classifierVars, consolidatorVars, taxonomy, storeVars,
                   scraper, run>>

\* analysis = analyze_learning_outcomes_direct(modules)
Analyze ==
    /\ pc = "input"
    /\ analysis' = analyze_learning_outcomes_direct(modules)
    /\ pc' = "analyzed"
    /\ UNCHANGED <<classifierVars, consolidatorVars, modules,
                   taxonomy, storeVars, scraper, run>>

\* taxonomy = build_taxonomy_structure(analysis['all_skills'])
Build ==
    /\ pc = "analyzed"
    /\ taxonomy' = build_taxonomy_structure(analysis.all_skills)
    /\ pc' = "built"
    /\ UNCHANGED <<classifierVars, consolidatorVars, modules,
                   analysis, storeVars, scraper, run>>

\* result = {...}; json.dump(result, f, ...)
Save ==
    /\ pc = "built"
    /\ document' = PyResult(taxonomy, analysis)
    /\ stored' = json_dump(PyResult(taxonomy, analysis))
    /\ pc' = "saved"
    /\ UNCHANGED <<classifierVars, consolidatorVars, pipelineVars, loaded,
                   scraper, run>>

\* json.load of the file json.dump wrote; there is no file when it raised.
Load ==
    /\ pc = "saved"
    /\ stored # TypeError
    /\ loaded' = json_load(stored)
    /\ pc' = "loaded"
    /\ UNCHANGED <<classifierVars, consolidatorVars, pipelineVars, document,
                   stored, scraper, run>>

NextPipeline == Analyze \/ Build \/ Save \/ Load

SpecPipeline == InitPipeline /\ [][NextPipeline]_vars

-----------------------------------------------------------------------------
(* Properties of the Taxonomy Builder.                                      *)

\* The category and the skill type a record is filed under.
CategoryOf(s) == IF "category" \in DOMAIN s THEN s.category ELSE "General"
TypeOf(s)     == IF "skill_type" \in DOMAIN s THEN s.skill_type ELSE "General"

\* The distinct entries of a list in the order of their first occurrence.
FirstOccurrences(list) ==
    LET firsts == SelectSeq([k \in 1..Len(list) |-> k],
                            LAMBDA k : \A m \in 1..(k - 1) : list[m] # list[k])
    IN  [i \in 1..Len(firsts) |-> list[firsts[i]]]

\* The records of a category, and of a skill type of a category, in list order.
InCategory(list, category) ==
    SelectSeq(list, LAMBDA s : CategoryOf(s) = category)
InBucket(list, category, skill_type) ==
    SelectSeq(list, LAMBDA s : CategoryOf(s) = category /\ TypeOf(s) = skill_type)

\* C9: one domain per distinct category in first-encounter order; in each
\* domain one sub-category per distinct skill type of the category, in the
\* order the types are first met within it; each sub-category's skills are
\* the Consolidator's result for the records of its bucket in input order.
C9_GroupingInFirstEncounterOrder ==
    pc = "built" =>
        LET flat == analysis.all_skills
            doms == taxonomy.domains
        IN  /\ [i \in 1..Len(doms) |-> doms[i].name]
                  = FirstOccurrences([k \in 1..Len(flat) |-> CategoryOf(flat[k])])
            /\ \A i \in 1..Len(doms) :
                LET subs == doms[i].sub_categories
                    recs == InCategory(flat, doms[i].name)
                IN  /\ [j \in 1..Len(subs) |-> subs[j].name]
                          = FirstOccurrences([k \in 1..Len(recs) |-> TypeOf(recs[k])])
                    /\ \A j \in 1..Len(subs) :
                          subs[j].skills = consolidate_similar_skills(
                              InBucket(flat, doms[i].name, subs[j].name))

\* Some sub-category name comes after a name that follows it alphabetically.
OutOfAlphabeticalOrder(entries) ==
    \E a, b \in 1..Len(entries) :
        a < b /\ StrLess(entries[b].name, entries[a].name)

\* A taxonomy whose domains, and the sub-categories of one domain, are in an
\* order that is not the alphabetical one.
C9_Witness ==
    /\ pc = "built"
    /\ OutOfAlphabeticalOrder(taxonomy.domains)
    /\ \E i \in 1..Len(taxonomy.domains) :
          OutOfAlphabeticalOrder(taxonomy.domains[i].sub_categories)

\* The consolidated skills of the whole taxonomy, each with the names of its
\* domain and sub-category, as a set.
TaxonomySkills ==
    UNION { UNION { { [domain |-> taxonomy.domains[i].name,
                       sub    |-> taxonomy.domains[i].sub_categories[j].name,
                       skill  |-> taxonomy.domains[i].sub_categories[j].skills[k]] :
                        k \in 1..Len(taxonomy.domains[i].sub_categories[j].skills) } :
                    j \in 1..Len(taxonomy.domains[i].sub_categories) } :
            i \in 1..Len(taxonomy.domains) }

\* The modules of the records of `list` named `name`.
ModulesNamed(list, name) ==
    {ModuleOf(list[k]) : k \in GroupOf(list, name)}

\* C10 as stated: every consolidated skill merges all records of the input
\* that share its name, so no name occurs in more than one consolidated skill
\* of the taxonomy.
C10_NameUniqueInTaxonomy ==
    pc = "built" =>
        /\ \A x, y \in TaxonomySkills : x.skill.name = y.skill.name => x = y
        /\ \A x \in TaxonomySkills :
              SetOf(x.skill.appears_in_modules)
                 = ModulesNamed(analysis.all_skills, x.skill.name)

\* C10 as amended: every consolidated skill merges all records of its own
\* (category, skill type) bucket that share its name, so no name occurs
\* twice in one sub-category; the same name may occur in several
\* sub-categories.
C10_NameUniqueInSubCategory ==
    pc = "built" =>
        /\ \A x, y \in TaxonomySkills :
              (x.domain = y.domain /\ x.sub = y.sub /\ x.skill.name = y.skill.name)
                 => x = y
        /\ \A x \in TaxonomySkills :
              LET bucket == InBucket(analysis.all_skills, x.domain, x.sub)
              IN  /\ SetOf(x.skill.appears_in_modules)
                        = ModulesNamed(bucket, x.skill.name)
                  /\ SetOf(x.skill.bloom_levels)
                        = {LevelOf(bucket[k]) : k \in GroupOf(bucket, x.skill.name)}

\* One name in two sub-categories, in each of them merged from the records
\* of two modules.
C10_Witness ==
    /\ pc = "built"
    /\ \E x, y \in TaxonomySkills :
        /\ x.skill.name = y.skill.name
        /\ x.sub # y.sub
        /\ Len(x.skill.appears_in_modules) = 2
        /\ Len(y.skill.appears_in_modules) = 2

-----------------------------------------------------------------------------
(* Properties of the Extractor.                                            *)

\* The concatenation of a list of lists, in list order.
RECURSIVE Flatten(_)
Flatten(lists) ==
    IF lists = << >> THEN << >> ELSE Head(lists) \o Flatten(Tail(lists))

\* The code, the level and the outcomes a module counts with.
CodeOf(m)        == IF "code" \in DOMAIN m THEN m.code ELSE "Unknown"
LevelNumberOf(m) == IF "level" \in DOMAIN m THEN m.level ELSE 0
OutcomesOf(m) ==
    IF "learning_outcomes" \in DOMAIN m THEN m.learning_outcomes ELSE << >>

\* The Classifier's records for each outcome of a module, one list per
\* outcome, in outcome order.
RecordsPerOutcome(m) ==
    [k \in 1..Len(OutcomesOf(m)) |->
        extract_skills_from_outcome(OutcomesOf(m)[k], LevelNumberOf(m), CodeOf(m))]

\* The modules of a list that have at least one outcome, in list order.
WithOutcomes(list) == SelectSeq(list, LAMBDA m : OutcomesOf(m) # << >>)

\* An enriched module without its extracted_skills.
WithoutExtractedSkills(e) == [k \in DOMAIN e \ {"extracted_skills"} |-> e[k]]

\* C11: the enriched modules are the input modules that have outcomes, in
\* input order; each one's extracted_skills is the concatenation, in outcome
\* order, of the Classifier's records for its outcomes; all_skills is the
\* concatenation of the enriched modules' extracted_skills in module order.
C11_OrderPreserved ==
    pc = "analyzed" =>
        LET kept     == WithOutcomes(modules)
            enriched == analysis.modules
        IN  /\ Len(enriched) = Len(kept)
            /\ \A i \in 1..Len(enriched) :
                  /\ WithoutExtractedSkills(enriched[i]) = kept[i]
                  /\ enriched[i].extracted_skills = Flatten(RecordsPerOutcome(kept[i]))
            /\ analysis.all_skills
                  = Flatten([i \in 1..Len(enriched) |-> enriched[i].extracted_skills])

\* Two enriched modules with different records, the first with two outcomes
\* one of which yields several records.
C11_Witness ==
    /\ pc = "analyzed"
    /\ Len(analysis.modules) >= 2
    /\ Len(OutcomesOf(analysis.modules[1])) = 2
    /\ Len(analysis.modules[1].extracted_skills) >= 3
    /\ analysis.modules[1].extracted_skills # analysis.modules[2].extracted_skills

\* The sum of a list of numbers.
RECURSIVE Sum(_)
Sum(ns) == IF ns = << >> THEN 0 ELSE Head(ns) + Sum(Tail(ns))

\* The number of records the Classifier returns for the outcomes of a module.
RecordCount(m) ==
    Sum([k \in 1..Len(OutcomesOf(m)) |-> Len(RecordsPerOutcome(m)[k])])

\* C12: total_skills is the length of all_skills and the sum, over the
\* modules with outcomes, of the number of records the Classifier returns for
\* each of their outcomes; total_modules is the number of enriched modules.
C12_SumProperty ==
    pc = "analyzed" =>
        LET kept == WithOutcomes(modules)
        IN  /\ analysis.total_skills = Len(analysis.all_skills)
            /\ analysis.total_skills
                  = Sum([i \in 1..Len(kept) |-> RecordCount(kept[i])])
            /\ analysis.total_modules = Len(analysis.modules)

\* Three input modules of which two are enriched, with more records than
\* outcomes.
C12_Witness ==
    /\ pc = "analyzed"
    /\ Len(modules) = 3
    /\ analysis.total_modules = 2
    /\ analysis.total_skills
          > Sum([i \in 1..Len(modules) |-> Len(OutcomesOf(modules[i]))])

\* C13: a module whose outcome list is empty or absent is not among the
\* enriched modules and adds nothing to all_skills, total_skills or
\* total_modules: the result is that of the same input without such modules.
C13_EmptyModulesSkipped ==
    pc = "analyzed" =>
        /\ \A i \in 1..Len(analysis.modules) :
              OutcomesOf(analysis.modules[i]) # << >>
        /\ analysis.total_modules
              = Cardinality({i \in 1..Len(modules) : OutcomesOf(modules[i]) # << >>})
        /\ analysis = analyze_learning_outcomes_direct(WithOutcomes(modules))

\* A module with an empty outcome list between two modules with outcomes,
\* both of which are enriched.
C13_Witness ==
    /\ pc = "analyzed"
    /\ Len(modules) = 3
    /\ OutcomesOf(modules[1]) # << >>
    /\ "learning_outcomes" \in DOMAIN modules[2]
    /\ modules[2].learning_outcomes = << >>
    /\ OutcomesOf(modules[3]) # << >>
    /\ analysis.total_modules = 2
    /\ analysis.total_skills > 0

\* The number of consolidated skills in the whole taxonomy.
ConsolidatedCount ==
    Sum([i \in 1..Len(taxonomy.domains) |->
            Sum([j \in 1..Len(taxonomy.domains[i].sub_categories) |->
                    Len(taxonomy.domains[i].sub_categories[j].skills)])])

\* C14: in the taxonomy built from the all_skills of a run, no consolidated
\* skill lists more module codes than the run's total_modules, and there are
\* no more consolidated skills than the run's total_skills.
C14_TaxonomyWithinTotals ==
    pc = "built" =>
        /\ \A x \in TaxonomySkills :
              Len(x.skill.appears_in_modules) <= analysis.total_modules
        /\ ConsolidatedCount <= analysis.total_skills

\* Consolidation has merged records, and some skill appears in every
\* enriched module of a run with several.
C14_Witness ==
    /\ pc = "built"
    /\ analysis.total_modules >= 2
    /\ ConsolidatedCount < analysis.total_skills
    /\ \E x \in TaxonomySkills :
          Len(x.skill.appears_in_modules) = analysis.total_modules

\* C20: a module with missing fields is analysed without error: a missing
\* level counts as 0, a missing outcome list as empty, so that the module is
\* skipped, and a missing code or title as "Unknown", so that the records of
\* a module with outcomes and no code carry the module "Unknown".
C20_MissingFieldsDefaulted ==
    pc = "analyzed" =>
        /\ DOMAIN analysis = {"modules", "all_skills", "total_modules", "total_skills"}
        /\ \A i \in 1..Len(modules) :
              LET m == modules[i]
              IN  /\ "level" \notin DOMAIN m => ModuleFields(m).level = 0
                  /\ "code" \notin DOMAIN m => ModuleFields(m).code = "Unknown"
                  /\ "title" \notin DOMAIN m => ModuleFields(m).title = "Unknown"
                  /\ "learning_outcomes" \notin DOMAIN m =>
                        /\ ModuleFields(m).outcomes = << >>
                        /\ \A j \in 1..Len(analysis.modules) :
                              WithoutExtractedSkills(analysis.modules[j]) # m
        /\ \A j \in 1..Len(analysis.modules) :
              LET e == analysis.modules[j]
              IN  "code" \notin DOMAIN e =>
                    /\ e.extracted_skills # << >>
                    /\ \A k \in 1..Len(e.extracted_skills) :
                          e.extracted_skills[k].module = "Unknown"

\* A run over a module with outcomes only and a module with no outcome list:
\* the first is enriched with records of module "Unknown", the second skipped.
C20_Witness ==
    /\ pc = "analyzed"
    /\ \E i, j \in 1..Len(modules) :
          /\ DOMAIN modules[i] = {"learning_outcomes"}
          /\ "learning_outcomes" \notin DOMAIN modules[j]
    /\ analysis.total_modules = 1
    /\ analysis.total_skills >= 2
    /\ \A k \in 1..Len(analysis.all_skills) :
          analysis.all_skills[k].module = "Unknown"

\* C21: the call of analyze_learning_outcomes_direct leaves the input as it
\* was: the same modules in the same order, each with the same keys and
\* values; extracted_skills is a key of every enriched module and of no
\* input module.
C21_InputImmutable ==
    [][ /\ modules' = modules
        /\ pc' = "analyzed" =>
              /\ \A i \in 1..Len(modules') :
                    "extracted_skills" \notin DOMAIN modules'[i]
              /\ \A j \in 1..Len(analysis'.modules) :
                    "extracted_skills" \in DOMAIN analysis'.modules[j] ]_vars

\* A run that has enriched two of three input modules.
C21_Witness ==
    /\ pc = "analyzed"
    /\ Len(modules) = 3
    /\ Len(analysis.modules) = 2
    /\ \A j \in 1..2 : analysis.modules[j].extracted_skills # << >>
    /\ \A i \in 1..3 : "extracted_skills" \notin DOMAIN modules[i]

\* The value is a string, an integer, a sequence of such values or a record
\* with string keys and such values.
RECURSIVE JsonNative(_)
JsonNative(v) ==
    \/ v.py \in {"str", "int"}
    \/ v.py = "list" /\ \A i \in 1..Len(v.items) : JsonNative(v.items[i])
    \/ /\ v.py = "dict"
       /\ \A i \in 1..Len(v.keys) : v.keys[i].py = "str"
       /\ \A i \in 1..Len(v.values) : JsonNative(v.values[i])

\* C22: the persisted document has the top-level keys taxonomy, modules,
\* total_skills and total_modules, holds only strings, integers, sequences
\* and string-keyed records, is written without error, and loading what was
\* written gives a document equal to it.
C22_DocumentRoundTrips ==
    /\ pc \in {"saved", "loaded"} =>
          /\ document.keys = <<PyStr("taxonomy"), PyStr("modules"),
                               PyStr("total_skills"), PyStr("total_modules")>>
          /\ JsonNative(document)
          /\ stored # TypeError
    /\ pc = "loaded" => loaded = document

\* A document of three enriched modules with a consolidated skill that lists
\* two modules has been written and loaded.
C22_Witness ==
    /\ pc = "loaded"
    /\ \E x \in TaxonomySkills : Len(x.skill.appears_in_modules) = 2
    /\ analysis.total_modules = 3
    /\ loaded.values[2].items[1].py = "dict"

-----------------------------------------------------------------------------
(* The scraper: fetch_module_descriptor on one page, and the loop of        *)
(* scrape_all_comp_modules over the candidate codes.                        *)

\* Python's None.
None == [none |-> TRUE]

BASE_URL == "https://hub.ucd.ie/usis/!W_HU_MENU.P_PUBLISH"

\* What the server and the parser give for a module code: whether the
\* request succeeds, whether the text holds "No data found", the length of
\* the text, whether an extractor raises, and what the extractors return.
Page(request, no_data, length, parse, title, outcomes, stage) ==
    [request |-> request, no_data |-> no_data, length |-> length,
     parse |-> parse, title |-> title, learning_outcomes |-> outcomes,
     level |-> stage]

\* A variant that returns the record whether or not a title was extracted.
M_fetch_module_descriptor_any_title(code, page) ==
    IF page.request = "fails" \/ page.parse = "raises" THEN None
    ELSE IF page.no_data \/ page.length < 1000 THEN None
    ELSE [code              |-> code,
          url               |-> BASE_URL \o "?p_tag=MODULE&MODULE=" \o code
                                  \o "&ARCHIVE=Y&TERMCODE=202500",
          title             |-> page.title,
          description       |-> "",
          learning_outcomes |-> page.learning_outcomes,
          syllabus          |-> "",
          assessment        |-> "",
          credits           |-> 0,
          level             |-> page.level,
          coordinator       |-> ""]

\* fetch_module_descriptor: None when the request or an extractor raises
\* (the except clause), when the page has no data or is short, or when the
\* title is empty; the full record otherwise.
fetch_module_descriptor(code, page) ==
    IF page.request = "fails" \/ page.parse = "raises" THEN None
    ELSE IF page.no_data \/ page.length < 1000 THEN None
    ELSE LET module_data ==
                [code              |-> code,
                 url               |-> BASE_URL \o "?p_tag=MODULE&MODULE=" \o code
                                         \o "&ARCHIVE=Y&TERMCODE=202500",
                 title             |-> page.title,
                 description       |-> "",
                 learning_outcomes |-> page.learning_outcomes,
                 syllabus          |-> "",
                 assessment        |-> "",
                 credits           |-> 0,
                 level             |-> page.level,
                 coordinator       |-> ""]
         IN  IF module_data.title # "" THEN module_data ELSE None

\* A variant of the limit test that stops only when the limit is exceeded.
M_ReachedLimitExceeded(max_modules, found) ==
    max_modules # 0 /\ Len(found) > max_modules

\* `max_modules and len(modules) >= max_modules`
ReachedLimit(max_modules, found) ==
    max_modules # 0 /\ Len(found) >= max_modules

\* main.py: max_modules=args.max_modules if not args.full_scrape else 0
ScrapeLimit(full_scrape, arg_max_modules) ==
    IF ~full_scrape THEN arg_max_modules ELSE 0

\* The first candidate codes get_comp_modules generates in test mode.
CandidateCodes ==
    <<"COMP10000", "COMP10010", "COMP10020", "COMP10030", "COMP10040",
      "COMP10050">>

\* The pages a candidate can get: a failed request, a page with "No data
\* found", a page of 999 characters, a page of 1000 characters with no
\* title, a page an extractor raises on, and two pages of a module.
PagePool == <<
    Page("fails", FALSE, 0, "ok", "", << >>, 0),
    Page("ok", TRUE, 5000, "ok", "UCD Module", << >>, 0),
    Page("ok", FALSE, 999, "ok", "Short", << >>, 1),
    Page("ok", FALSE, 1000, "ok", "", <<"Write and debug programs.">>, 1),
    Page("ok", FALSE, 5000, "raises", "Broken", << >>, 0),
    Page("ok", FALSE, 1000, "ok", "Programming I", <<"Write and debug programs.">>, 1),
    Page("ok", FALSE, 5000, "ok", "Data Structures", << >>, 2) >>

\* The state at the call: the arguments of main.py that set the limit, the
\* page of each candidate, and the locals of the loop.
InitScraper ==
    /\ pc = "input"
    /\ \E n \in 0..MaxCandidates :
       \E pages \in [1..n -> 1..Len(PagePool)] :
       \E full_scrape \in BOOLEAN :
       \E arg_max_modules \in 0..MaxLimit :
          scraper = [full_scrape  |-> full_scrape,
                     arg_max_modules |-> arg_max_modules,
                     max_modules  |-> ScrapeLimit(full_scrape, arg_max_modules),
                     pages        |-> pages,
                     fetched      |-> << >>,
                     modules      |-> << >>,
                     stopped      |-> FALSE]
    /\ ClassifierIdle
    /\ ConsolidatorIdle
    /\ PipelineIdle
    /\ MainIdle

\* One pass of the `for code in module_codes` loop.
FetchNext ==
    /\ pc = "input"
    /\ ~scraper.stopped
    /\ Len(scraper.fetched) < Len(scraper.pages)
    /\ LET k == Len(scraper.fetched) + 1
           code == CandidateCodes[k]
           module_data == fetch_module_descriptor(code, PagePool[scraper.pages[k]])
           found == IF module_data # None
                    THEN Append(scraper.modules, module_data)
                    ELSE scraper.modules
       IN  scraper' = [scraper EXCEPT
                          !.fetched = Append(@, code),
                          !.modules = found,
                          !.stopped = module_data # None
                                        /\ ReachedLimit(scraper.max_modules, found)]
    /\ UNCHANGED <<pc, classifierVars, consolidatorVars, pipelineVars,
                   storeVars, run>>

\* The loop has ended, by break or by exhaustion: `return modules`.
ReturnModules ==
    /\ pc = "input"
    /\ scraper.stopped \/ Len(scraper.fetched) = Len(scraper.pages)
    /\ pc' = "returned"
    /\ UNCHANGED <<classifierVars, consolidatorVars, pipelineVars,
                   storeVars, scraper, run>>

NextScraper == FetchNext \/ ReturnModules

SpecScraper == InitScraper /\ [][NextScraper]_vars

-----------------------------------------------------------------------------
(* Properties of the scraper.                                               *)

\* The fields of a complete module record.
ModuleRecordKeys ==
    {"code", "url", "title", "description", "learning_outcomes", "syllabus",
     "assessment", "credits", "level", "coordinator"}

\* The page of the k-th candidate.
PageOf(k) == PagePool[scraper.pages[k]]

\* C23: fetch_module_descriptor returns None when the request fails, when
\* the page reports no data or has fewer than 1000 characters, or when no
\* title is extracted; what it returns otherwise has all ten fields and a
\* non-empty title; the list scrape_all_comp_modules builds holds no None.
C23_AbsentOrComplete ==
    /\ \A k \in 1..Len(scraper.fetched) :
          LET page == PageOf(k)
              got  == fetch_module_descriptor(CandidateCodes[k], page)
          IN  /\ (\/ page.request = "fails"
                  \/ page.no_data
                  \/ page.length < 1000
                  \/ page.title = "") => got = None
              /\ got # None =>
                    /\ DOMAIN got = ModuleRecordKeys
                    /\ got.title # ""
                    /\ got.code = CandidateCodes[k]
    /\ \A j \in 1..Len(scraper.modules) :
          /\ scraper.modules[j] # None
          /\ DOMAIN scraper.modules[j] = ModuleRecordKeys
          /\ scraper.modules[j].title # ""

\* A run that met a failed request, a page with no title and a module page,
\* and returned the one module.
C23_Witness ==
    /\ pc = "returned"
    /\ Len(scraper.fetched) = 3
    /\ \E a, b, c \in 1..3 :
          /\ PageOf(a).request = "fails"
          /\ PageOf(b).request = "ok" /\ PageOf(b).length >= 1000
          /\ ~PageOf(b).no_data /\ PageOf(b).title = ""
          /\ fetch_module_descriptor(CandidateCodes[c], PageOf(c)) # None
    /\ Len(scraper.modules) = 1

\* The places of the candidates whose page gives a record, ascending.
FoundPlaces ==
    SelectSeq([k \in 1..Len(scraper.pages) |-> k],
              LAMBDA k : /\ PageOf(k).request = "ok"
                         /\ PageOf(k).parse = "ok"
                         /\ ~PageOf(k).no_data
                         /\ PageOf(k).length >= 1000
                         /\ PageOf(k).title # "")

\* C26: with max_modules = n > 0 the result holds at most n modules and the
\* last fetch is the one that found the n-th; with max_modules = 0 (as with
\* --full-scrape) every candidate is fetched; the result is, in candidate
\* order, the records of the (first n) candidates that have one.
C26_LimitAndOrder ==
    LET n == scraper.max_modules
        expected == IF n > 0 /\ Len(FoundPlaces) > n
                    THEN SubSeq(FoundPlaces, 1, n) ELSE FoundPlaces
    IN  /\ n > 0 => Len(scraper.modules) <= n
        /\ (n > 0 /\ Len(FoundPlaces) >= n) => Len(scraper.fetched) <= FoundPlaces[n]
        /\ scraper.full_scrape => n = 0
        /\ ~scraper.full_scrape => n = scraper.arg_max_modules
        /\ pc = "returned" =>
              /\ Len(scraper.fetched)
                    = IF n > 0 /\ Len(FoundPlaces) >= n
                      THEN FoundPlaces[n] ELSE Len(scraper.pages)
              /\ Len(scraper.modules) = Len(expected)
              /\ \A j \in 1..Len(expected) :
                    scraper.modules[j].code = CandidateCodes[expected[j]]
              /\ scraper.fetched = SubSeq(CandidateCodes, 1, Len(scraper.fetched))

\* A run with limit 1 that returned after the second of three candidates,
\* the third of which has a record too.
C26_Witness ==
    /\ pc = "returned"
    /\ scraper.max_modules = 1
    /\ Len(scraper.pages) = 3
    /\ Len(scraper.fetched) = 2
    /\ Len(scraper.modules) = 1
    /\ Len(FoundPlaces) = 2

-----------------------------------------------------------------------------
(* build_taxonomy_structure on a list of at most MaxSkills records drawn    *)
(* from RecordPool.                                                         *)

\* A skill record with every field, in a given category and skill type.
SkillIn(category, skill_type, name, module, blooms) ==
    [skill_name   |-> name,
     description  |-> name,
     category     |-> category,
     skill_type   |-> skill_type,
     blooms_level |-> blooms,
     keywords     |-> << >>,
     module       |-> module]

\* The records the lists are made of: one name twice in one bucket, with
\* two modules and two levels; the same name in another skill type; a second
\* category; a record filed under General by its own fields; and records
\* that lack the category, the skill type and the name, or every field that
\* is read.
RecordPool == <<
    SkillIn("Technical", "Programming", "Programming", "COMP201", "Apply"),
    SkillIn("Technical", "Programming", "Programming", "COMP101", "Create"),
    SkillIn("Technical", "Testing & Debugging", "Programming", "COMP101", "Analyze"),
    SkillIn("Professional", "Communication", "Communication", "COMP101", "Understand"),
    SkillIn("General", "General", "Unknown", "COMP301", "Remember"),
    [skill_name |-> "Programming", skill_type |-> "Programming"],
    [module |-> "COMP101", blooms_level |-> "Create", category |-> "Technical"],
    [description |-> "nothing else"] >>

RecordLists ==
    UNION { { [i \in 1..k |-> RecordPool[f[i]]] :
                f \in [1..k -> 1..Len(RecordPool)] } : k \in 0..MaxSkills }

InitBuilder ==
    /\ pc = "input"
    /\ in_skills \in RecordLists
    /\ consolidated = NoValue
    /\ ClassifierIdle
    /\ PipelineIdle
    /\ ScraperIdle
    /\ MainIdle

\* taxonomy = build_taxonomy_structure(in_skills)
BuildFromSkills ==
    /\ pc = "input"
    /\ taxonomy' = build_taxonomy_structure(in_skills)
    /\ pc' = "filed"
    /\ UNCHANGED <<classifierVars, consolidatorVars, modules, analysis,
                   storeVars, scraper, run>>

NextBuilder == BuildFromSkills

SpecBuilder == InitBuilder /\ [][NextBuilder]_vars

-----------------------------------------------------------------------------
(* Properties of build_taxonomy_structure on arbitrary records.             *)

\* The places of the consolidated skills of the taxonomy: domain, then
\* sub-category, then skill.
TaxonomyPlaces ==
    UNION { UNION { { <<i, j, k>> :
                        k \in 1..Len(taxonomy.domains[i].sub_categories[j].skills) } :
                    j \in 1..Len(taxonomy.domains[i].sub_categories) } :
            i \in 1..Len(taxonomy.domains) }

DomainAt(p) == taxonomy.domains[p[1]]
SubCategoryAt(p) == taxonomy.domains[p[1]].sub_categories[p[2]]
SkillAt(p) == taxonomy.domains[p[1]].sub_categories[p[2]].skills[p[3]]

\* The places whose three names are the ones given.
PlacesNamed(category, skill_type, name) ==
    {p \in TaxonomyPlaces : /\ DomainAt(p).name = category
                            /\ SubCategoryAt(p).name = skill_type
                            /\ SkillAt(p).name = name}

\* C24: a record without category is filed under domain General, one
\* without skill_type under sub-category General, and a missing skill_name,
\* module or blooms_level counts as "Unknown"; every input record is found
\* in the bucket these names give.
C24_MissingFieldsFiled ==
    pc = "filed" =>
        \A r \in 1..Len(in_skills) :
            LET s == in_skills[r]
                category   == IF "category" \in DOMAIN s THEN s.category ELSE "General"
                skill_type == IF "skill_type" \in DOMAIN s THEN s.skill_type ELSE "General"
                name       == IF "skill_name" \in DOMAIN s THEN s.skill_name ELSE "Unknown"
                module     == IF "module" \in DOMAIN s THEN s.module ELSE "Unknown"
                blooms     == IF "blooms_level" \in DOMAIN s THEN s.blooms_level ELSE "Unknown"
            IN  \E p \in PlacesNamed(category, skill_type, name) :
                    /\ \E m \in 1..Len(SkillAt(p).appears_in_modules) :
                          SkillAt(p).appears_in_modules[m] = module
                    /\ \E b \in 1..Len(SkillAt(p).bloom_levels) :
                          SkillAt(p).bloom_levels[b] = blooms

\* A record without category, one without skill_type and name, and one with
\* none of the fields, filed in three buckets.
C24_Witness ==
    /\ pc = "filed"
    /\ Len(in_skills) = 3
    /\ \E a, b, c \in 1..3 :
          /\ DOMAIN in_skills[a] = {"skill_name", "skill_type"}
          /\ DOMAIN in_skills[b] = {"module", "blooms_level", "category"}
          /\ DOMAIN in_skills[c] = {"description"}
    /\ PlacesNamed("General", "Programming", "Programming") # {}
    /\ PlacesNamed("Technical", "General", "Unknown") # {}
    /\ PlacesNamed("General", "General", "Unknown") # {}

\* C30: every input record has exactly one place whose domain,
\* sub-category and skill names are its category, skill type and name, and
\* the skill there lists its module and its level; every domain has a
\* sub-category and every sub-category a skill; every module and level
\* listed comes from an input record of that bucket and name; domain names
\* differ pairwise, and so do the sub-category names of a domain.
C30_NothingLostNothingInvented ==
    pc = "filed" =>
        LET doms == taxonomy.domains
        IN  /\ \A r \in 1..Len(in_skills) :
                  LET s == in_skills[r]
                      at == PlacesNamed(CategoryOf(s), TypeOf(s), NameOf(s))
                  IN  /\ Cardinality(at) = 1
                      /\ \A p \in at :
                            /\ ModuleOf(s) \in SetOf(SkillAt(p).appears_in_modules)
                            /\ LevelOf(s) \in SetOf(SkillAt(p).bloom_levels)
            /\ \A i \in 1..Len(doms) :
                  /\ Len(doms[i].sub_categories) >= 1
                  /\ \A j \in 1..Len(doms[i].sub_categories) :
                        Len(doms[i].sub_categories[j].skills) >= 1
            /\ \A p \in TaxonomyPlaces :
                  LET from == {r \in 1..Len(in_skills) :
                                  /\ CategoryOf(in_skills[r]) = DomainAt(p).name
                                  /\ TypeOf(in_skills[r]) = SubCategoryAt(p).name
                                  /\ NameOf(in_skills[r]) = SkillAt(p).name}
                  IN  /\ SetOf(SkillAt(p).appears_in_modules)
                            \subseteq {ModuleOf(in_skills[r]) : r \in from}
                      /\ SetOf(SkillAt(p).bloom_levels)
                            \subseteq {LevelOf(in_skills[r]) : r \in from}
            /\ \A a, b \in 1..Len(doms) : a # b => doms[a].name # doms[b].name
            /\ \A i \in 1..Len(doms) :
                  \A a, b \in 1..Len(doms[i].sub_categories) :
                      a # b => doms[i].sub_categories[a].name
                                  # doms[i].sub_categories[b].name

\* Three records of one name: two of one bucket, from two modules and at two
\* levels, and one of another skill type of the same category.
C30_Witness ==
    /\ pc = "filed"
    /\ Len(in_skills) = 3
    /\ Len(taxonomy.domains) = 1
    /\ Len(taxonomy.domains[1].sub_categories) = 2
    /\ Cardinality(TaxonomyPlaces) = 2
    /\ \E p \in TaxonomyPlaces :
          /\ Len(SkillAt(p).appears_in_modules) = 2
          /\ Len(SkillAt(p).bloom_levels) = 2

-----------------------------------------------------------------------------
(* main() of main.py: the four steps, each behind its test of the command   *)
(* line, and the two early returns.                                         *)

\* `not args.skip_scraping and not args.only_visualize and not args.only_analyze`
ScrapingSelected(args) ==
    ~args.skip_scraping /\ ~args.only_visualize /\ ~args.only_analyze

\* `not args.skip_taxonomy and not args.only_visualize and not args.only_analyze`
TaxonomySelected(args) ==
    ~args.skip_taxonomy /\ ~args.only_visualize /\ ~args.only_analyze

\* The command lines: the five flags and --max-modules.
CommandLines ==
    [skip_scraping : BOOLEAN, skip_taxonomy : BOOLEAN, only_visualize : BOOLEAN,
     only_analyze : BOOLEAN, full_scrape : BOOLEAN, max_modules : 0..MaxLimit]

\* The state after parse_args: the arguments, whether ANTHROPIC_API_KEY is
\* set, the number of modules the scraper returned (none yet), and the calls
\* made so far, with "complete" for the PIPELINE COMPLETE banner.
InitMain ==
    /\ pc = "step1"
    /\ \E args \in CommandLines :
       \E api_key \in BOOLEAN :
          run = [args |-> args, api_key |-> api_key, modules |-> 0, log |-> << >>]
    /\ ClassifierIdle
    /\ ConsolidatorIdle
    /\ PipelineIdle
    /\ ScraperIdle

\* A variant of step 1 that goes on when no module was found.
M_Step1ContinuesWhenEmpty ==
    /\ pc = "step1"
    /\ IF ScrapingSelected(run.args)
       THEN \E n \in 0..MaxCandidates :
               /\ ~ReachedLimit(ScrapeLimit(run.args.full_scrape, run.args.max_modules),
                                [k \in 1..(n - 1) |-> k])
               /\ run' = [run EXCEPT !.modules = n, !.log = Append(@, "scrape")]
               /\ pc' = "step2"
       ELSE /\ pc' = "step2"
            /\ UNCHANGED run
    /\ UNCHANGED <<classifierVars, consolidatorVars, pipelineVars, storeVars,
                   scraper>>

\* Step 1: scrape_all_comp_modules returns some number of modules, within
\* the limit when there is one; main returns when it is empty.
Step1 ==
    /\ pc = "step1"
    /\ IF ScrapingSelected(run.args)
       THEN \E n \in 0..MaxCandidates :
               /\ ~ReachedLimit(ScrapeLimit(run.args.full_scrape, run.args.max_modules),
                                [k \in 1..(n - 1) |-> k])
               /\ run' = [run EXCEPT !.modules = n, !.log = Append(@, "scrape")]
               /\ pc' = IF n = 0 THEN "returned" ELSE "step2"
       ELSE /\ pc' = "step2"
            /\ UNCHANGED run
    /\ UNCHANGED <<classifierVars, consolidatorVars, pipelineVars, storeVars,
                   scraper>>

\* Step 2: main returns when ANTHROPIC_API_KEY is not set, and calls
\* build_taxonomy and save_taxonomy otherwise.
Step2 ==
    /\ pc = "step2"
    /\ IF TaxonomySelected(run.args)
       THEN IF ~run.api_key
            THEN /\ pc' = "returned"
                 /\ UNCHANGED run
            ELSE /\ run' = [run EXCEPT !.log = Append(@, "taxonomy")]
                 /\ pc' = "step3"
       ELSE /\ pc' = "step3"
            /\ UNCHANGED run
    /\ UNCHANGED <<classifierVars, consolidatorVars, pipelineVars, storeVars,
                   scraper>>

\* Step 3: generate_all_visualizations.
Step3 ==
    /\ pc = "step3"
    /\ run' = IF ~run.args.only_analyze
              THEN [run EXCEPT !.log = Append(@, "visualize")]
              ELSE run
    /\ pc' = "step4"
    /\ UNCHANGED <<classifierVars, consolidatorVars, pipelineVars, storeVars,
                   scraper>>

\* Step 4: generate_report.
Step4 ==
    /\ pc = "step4"
    /\ run' = IF ~run.args.only_visualize
              THEN [run EXCEPT !.log = Append(@, "analyze")]
              ELSE run
    /\ pc' = "complete"
    /\ UNCHANGED <<classifierVars, consolidatorVars, pipelineVars, storeVars,
                   scraper>>

\* The PIPELINE COMPLETE banner and the end of main.
Complete ==
    /\ pc = "complete"
    /\ run' = [run EXCEPT !.log = Append(@, "complete")]
    /\ pc' = "returned"
    /\ UNCHANGED <<classifierVars, consolidatorVars, pipelineVars, storeVars,
                   scraper>>

NextMain == Step1 \/ Step2 \/ Step3 \/ Step4 \/ Complete

SpecMain == InitMain /\ [][NextMain]_vars

-----------------------------------------------------------------------------
(* Properties of main().                                                    *)

\* The steps in the documented order, ending with the banner.
StepOrder == <<"scrape", "taxonomy", "visualize", "analyze", "complete">>

\* The place of a step in StepOrder.
StepPlace(step) == CHOOSE i \in 1..Len(StepOrder) : StepOrder[i] = step

\* `step` has run.
HasRun(step) == \E i \in 1..Len(run.log) : run.log[i] = step

\* C25: the steps that run do so in the order scrape, taxonomy,
\* visualisation, analysis; when the scraping step has run and returned no
\* modules, or taxonomy generation is selected and ANTHROPIC_API_KEY is not
\* set, no later step runs and PIPELINE COMPLETE is not reported;
\* --only-visualize and --only-analyze each keep scraping and taxonomy
\* generation from running; a run with no failed precondition does every
\* selected step and reports PIPELINE COMPLETE.
C25_StepsInOrder ==
    LET a == run.args
        scraping == ~a.skip_scraping /\ ~a.only_visualize /\ ~a.only_analyze
        generating == ~a.skip_taxonomy /\ ~a.only_visualize /\ ~a.only_analyze
        scrape_failed == HasRun("scrape") /\ run.modules = 0
        key_missing == generating /\ ~run.api_key
    IN  /\ \A i, j \in 1..Len(run.log) :
              i < j => StepPlace(run.log[i]) < StepPlace(run.log[j])
        /\ scrape_failed => run.log = <<"scrape">>
        /\ key_missing =>
              /\ ~HasRun("taxonomy") /\ ~HasRun("visualize")
              /\ ~HasRun("analyze") /\ ~HasRun("complete")
        /\ (a.only_visualize \/ a.only_analyze) =>
              ~HasRun("scrape") /\ ~HasRun("taxonomy")
        /\ HasRun("scrape") => scraping
        /\ HasRun("taxonomy") => generating
        /\ (pc = "returned" /\ ~scrape_failed /\ ~key_missing) =>
              /\ HasRun("scrape") <=> scraping
              /\ HasRun("taxonomy") <=> generating
              /\ HasRun("visualize") <=> ~a.only_analyze
              /\ HasRun("analyze") <=> ~a.only_visualize
              /\ HasRun("complete")

\* A run with no flag and the key set whose scraping step found nothing.
C25_Witness ==
    /\ pc = "returned"
    /\ ScrapingSelected(run.args) /\ TaxonomySelected(run.args)
    /\ run.api_key
    /\ run.modules = 0
    /\ run.log = <<"scrape">>

=============================================================================
